---- MODULE Spec2Model ----
(***************************************************************************)
(* The SchemaCrawler-JSON to DBML converters of src/schemacrawler:         *)
(*   json_dbml_converter.py           (batch tool, convert_to_dbml)        *)
(*   convert_schemacrawler_to_dbml.py (single-file tool, to_dbml)          *)
(*                                                                         *)
(* A decoded JSON document is a tree of tagged records.  A Python str is a *)
(* sequence of one-character strings, so that quoting, escaping, prefix    *)
(* tests and joins are computed character by character.                    *)
(***************************************************************************)
EXTENDS Integers, Sequences, FiniteSets, TLC

VARIABLES mode, dir, json_files, pc, i, dbml_content, outfiles, log, faults,
          arg, ret, built, pending, lookups

vars == <<mode, dir, json_files, pc, i, dbml_content, outfiles, log, faults, arg, ret,
          built, pending, lookups>>

(***************************************************************************)
(* Decoded JSON values (json.load): None, str, int, bool, list, dict.      *)
(* A dict keeps its keys in document order as a sequence of <<key, value>>.*)
(***************************************************************************)
JNull == [t |-> "null"]
JStr(s) == [t |-> "str", s |-> s]
JInt(n) == [t |-> "int", n |-> n]
JBool(b) == [t |-> "bool", b |-> b]
JList(xs) == [t |-> "list", items |-> xs]
JDict(kv) == [t |-> "dict", kv |-> kv]

\* A file whose text json.load rejects (json.JSONDecodeError).
InvalidJson == [t |-> "invalid"]

\* Python truthiness of a decoded value: `if x`, `x or y`, `not x`.
Truthy(o) ==
    CASE o.t = "null" -> FALSE
      [] o.t = "str" -> o.s # <<>>
      [] o.t = "int" -> o.n # 0
      [] o.t = "bool" -> o.b
      [] o.t = "list" -> o.items # <<>>
      [] o.t = "dict" -> o.kv # <<>>

\* `a or b`
Or(a, b) ==
    IF Truthy(a) THEN a ELSE b

\* `k in d` for a dict d
HasKey(d, k) ==
    \E n \in 1..Len(d.kv) : d.kv[n][1] = k

\* d.get(k, dflt): the value under k, dflt when the key is absent
GetD(d, k, dflt) ==
    IF HasKey(d, k)
    THEN d.kv[CHOOSE n \in 1..Len(d.kv) :
                  d.kv[n][1] = k /\ \A m \in (n+1)..Len(d.kv) : d.kv[m][1] # k][2]
    ELSE dflt

\* d.get(k)
Get(d, k) ==
    GetD(d, k, JNull)

\* d.values(), in document order
Values(d) ==
    [n \in 1..Len(d.kv) |-> d.kv[n][2]]

\* A value Python can hash (use as a dict key, test with `in` on a dict).
Hashable(o) ==
    o.t \notin {"list", "dict"}

(***************************************************************************)
(* Characters.  The grave accent cannot be written inside a TLA+ string,   *)
(* so it is the one character that is named instead of written.            *)
(***************************************************************************)
Backtick == "<grave>"

\* Code points 32..126 in order; Ord is Python's ord().
Ascii ==
    <<" ", "!", "\"", "#", "$", "%", "&", "'", "(", ")", "*", "+", ",", "-", ".", "/",
      "0", "1", "2", "3", "4", "5", "6", "7", "8", "9", ":", ";", "<", "=", ">", "?",
      "@", "A", "B", "C", "D", "E", "F", "G", "H", "I", "J", "K", "L", "M", "N", "O",
      "P", "Q", "R", "S", "T", "U", "V", "W", "X", "Y", "Z", "[", "\\", "]", "^", "_",
      Backtick, "a", "b", "c", "d", "e", "f", "g", "h", "i", "j", "k", "l", "m", "n", "o",
      "p", "q", "r", "s", "t", "u", "v", "w", "x", "y", "z", "{", "|", "}", "~">>

Ord(c) ==
    CASE c = "\t" -> 9
      [] c = "\n" -> 10
      [] c = "\r" -> 13
      [] OTHER -> 31 + (CHOOSE n \in 1..Len(Ascii) : Ascii[n] = c)

Chr(n) ==
    Ascii[n - 31]

IsUpper(c) ==
    Ord(c) >= 65 /\ Ord(c) <= 90

IsLower(c) ==
    Ord(c) >= 97 /\ Ord(c) <= 122

IsDigit(c) ==
    Ord(c) >= 48 /\ Ord(c) <= 57

\* [A-Za-z_]
IsIdentStart(c) ==
    IsUpper(c) \/ IsLower(c) \/ c = "_"

\* [A-Za-z0-9_]
IsIdentChar(c) ==
    IsIdentStart(c) \/ IsDigit(c)

\* str.strip() removes these from both ends.
IsSpace(c) ==
    c \in {" ", "\t", "\n", "\r"}

(***************************************************************************)
(* str operations                                                          *)
(***************************************************************************)
StartsWith(s, p) ==
    Len(s) >= Len(p) /\ SubSeq(s, 1, Len(p)) = p

EndsWith(s, p) ==
    Len(s) >= Len(p) /\ SubSeq(s, Len(s) - Len(p) + 1, Len(s)) = p

\* `p in s` for strings: p occurs in s
Contains(s, p) ==
    \E n \in 1..(Len(s) - Len(p) + 1) : SubSeq(s, n, n + Len(p) - 1) = p

\* `c in s` for a character c
HasChar(s, c) ==
    \E n \in 1..Len(s) : s[n] = c

RECURSIVE LStrip(_)
LStrip(s) ==
    IF s # <<>> /\ IsSpace(Head(s)) THEN LStrip(Tail(s)) ELSE s

RECURSIVE RStrip(_)
RStrip(s) ==
    IF s # <<>> /\ IsSpace(s[Len(s)]) THEN RStrip(SubSeq(s, 1, Len(s) - 1)) ELSE s

\* s.strip()
Strip(s) ==
    RStrip(LStrip(s))

\* s.replace(c, r) for a one-character c
RECURSIVE Replace(_, _, _)
Replace(s, c, r) ==
    IF s = <<>> THEN <<>>
    ELSE (IF Head(s) = c THEN r ELSE <<Head(s)>>) \o Replace(Tail(s), c, r)

\* s.lower()
Lower(s) ==
    [n \in 1..Len(s) |-> IF IsUpper(s[n]) THEN Chr(Ord(s[n]) + 32) ELSE s[n]]

\* sep.join(parts)
RECURSIVE Join(_, _)
Join(sep, parts) ==
    IF parts = <<>> THEN <<>>
    ELSE IF Len(parts) = 1 THEN parts[1]
    ELSE parts[1] \o sep \o Join(sep, Tail(parts))

\* an f-string: the concatenation of its pieces
Cat(parts) ==
    Join(<<>>, parts)

\* s.count(c) for a character c
Count(s, c) ==
    Cardinality({n \in 1..Len(s) : s[n] = c})

\* str(n) for an int n >= 0
RECURSIVE IntToStr(_)
IntToStr(n) ==
    IF n < 10 THEN <<Chr(48 + n)>>
    ELSE IntToStr(n \div 10) \o <<Chr(48 + (n % 10))>>

\* Python's < on str: code-point order, a proper prefix first
RECURSIVE StrLess(_, _)
StrLess(a, b) ==
    IF b = <<>> THEN FALSE
    ELSE IF a = <<>> THEN TRUE
    ELSE IF Head(a) # Head(b) THEN Ord(Head(a)) < Ord(Head(b))
    ELSE StrLess(Tail(a), Tail(b))

\* str(v), and the text an f-string puts for {v}
PyStr(v) ==
    CASE v.t = "str" -> v.s
      [] v.t = "int" -> IntToStr(v.n)
      [] v.t = "bool" -> IF v.b THEN <<"T", "r", "u", "e">> ELSE <<"F", "a", "l", "s", "e">>
      [] v.t = "null" -> <<"N", "o", "n", "e">>

(***************************************************************************)
(* json_dbml_converter.py                                                  *)
(***************************************************************************)
lit_java_util ==
    <<"j", "a", "v", "a", ".", "u", "t", "i", "l">>

lit_varchar ==
    <<"v", "a", "r", "c", "h", "a", "r">>

lit_MutableIndex ==
    <<"M", "u", "t", "a", "b", "l", "e", "I", "n", "d", "e", "x">>

lit_Table ==
    <<"T", "a", "b", "l", "e", " ">>

lit_pk ==
    <<"p", "k">>

lit_not_null ==
    <<"n", "o", "t", " ", "n", "u", "l", "l">>

lit_unique ==
    <<"u", "n", "i", "q", "u", "e">>

lit_default ==
    <<"d", "e", "f", "a", "u", "l", "t", ":", " ">>

lit_note ==
    <<"n", "o", "t", "e", ":", " ", "'">>

lit_table_note ==
    <<" ", " ", "N", "o", "t", "e", ":", " ", "'">>

lit_indexes ==
    <<" ", " ", "i", "n", "d", "e", "x", "e", "s", " ", "{">>

lit_indexes_close ==
    <<" ", " ", "}">>

lit_table_close ==
    <<"}", "\n">>

lit_index_pk ==
    <<")", " ", "[", "p", "k", "]">>

lit_index_unique ==
    <<")", " ", "[", "u", "n", "i", "q", "u", "e", "]">>

lit_Ref ==
    <<"R", "e", "f", ":", " ">>

lit_delete ==
    <<"d", "e", "l", "e", "t", "e", ":", " ">>

lit_update ==
    <<"u", "p", "d", "a", "t", "e", ":", " ">>

lit_dbml ==
    <<".", "d", "b", "m", "l">>

lit_json ==
    <<".", "j", "s", "o", "n">>

\* The empty dict {} used as uuid_map's start and as a .get default.
EmptyMap ==
    [k \in {} |-> JNull]

is_java_container(obj) ==
    /\ obj.t = "list"
    /\ Len(obj.items) >= 2
    /\ obj.items[1].t = "str"
    /\ StartsWith(obj.items[1].s, lit_java_util)

unwrap(obj) ==
    IF is_java_container(obj) THEN obj.items[2] ELSE obj

\* `unwrap(d.get(k, [])) or []`, then iterated: the entries of the list
listing(d, k) ==
    Or(unwrap(GetD(d, k, JList(<<>>))), JList(<<>>)).items

\* The walk assigns uuid_map[uid] = obj in pre-order, so of two objects with
\* one identifier the one visited later stays: f @@ g keeps f's entries.
RECURSIVE collect_uuid_map(_, _)
RECURSIVE collect_each(_)
collect_uuid_map(obj, uuid_map) ==
    IF obj.t = "dict"
    THEN LET uid == Get(obj, "@uuid")
         IN collect_each(Values(obj))
            @@ (IF Truthy(uid) THEN (uid :> obj) ELSE EmptyMap)
            @@ uuid_map
    ELSE IF obj.t = "list"
    THEN collect_each(obj.items) @@ uuid_map
    ELSE uuid_map

\* the `for v in ...: collect_uuid_map(v, uuid_map)` loops: what they add
collect_each(items) ==
    IF items = <<>> THEN EmptyMap
    ELSE collect_each(Tail(items)) @@ collect_uuid_map(Head(items), EmptyMap)

\* uuid_map[uid] = obj raises TypeError for a truthy unhashable uid
RECURSIVE collect_uuid_map_raises(_)
collect_uuid_map_raises(obj) ==
    IF obj.t = "dict"
    THEN \/ Truthy(Get(obj, "@uuid")) /\ ~Hashable(Get(obj, "@uuid"))
         \/ \E n \in 1..Len(obj.kv) : collect_uuid_map_raises(obj.kv[n][2])
    ELSE IF obj.t = "list"
    THEN \E n \in 1..Len(obj.items) : collect_uuid_map_raises(obj.items[n])
    ELSE FALSE

\* o.get('name') or o.get('database-specific-type-name') or o.get('full-name') or 'varchar'
datatype_name(o) ==
    Or(Or(Or(Get(o, "name"), Get(o, "database-specific-type-name")),
          Get(o, "full-name")),
       JStr(lit_varchar))

\* A faulty resolve_datatype: an identifier that does not resolve is itself
\* taken for the type name.
resolve_datatype_identifier(dtref, uuid_map) ==
    IF dtref.t = "dict" THEN datatype_name(dtref)
    ELSE IF dtref.t = "str" /\ dtref \in DOMAIN uuid_map /\ Truthy(uuid_map[dtref])
    THEN datatype_name(uuid_map[dtref])
    ELSE IF dtref.t = "str" THEN dtref
    ELSE JStr(lit_varchar)

resolve_datatype(dtref, uuid_map) ==
    IF dtref.t = "dict" THEN datatype_name(dtref)
    ELSE IF dtref.t = "str" /\ dtref \in DOMAIN uuid_map /\ Truthy(uuid_map[dtref])
    THEN datatype_name(uuid_map[dtref])
    ELSE JStr(lit_varchar)

\* re.match(r'^[A-Za-z_][A-Za-z0-9_]*$', name): `$` matches at the end of the
\* string and also just before a newline that ends it.
ident_match(s) ==
    /\ s # <<>>
    /\ IsIdentStart(s[1])
    /\ LET body == IF Len(s) > 1 /\ s[Len(s)] = "\n" THEN SubSeq(s, 1, Len(s) - 1) ELSE s
       IN \A n \in 1..Len(body) : IsIdentChar(body[n])

sanitize_identifier(name) ==
    IF name.t = "null" THEN <<>>
    ELSE IF ident_match(name.s) THEN name.s
    ELSE <<Backtick>> \o name.s \o <<Backtick>>

\* re.match raises TypeError for a name that is neither None nor a str
sanitize_identifier_raises(name) ==
    name.t \notin {"null", "str"}

format_default(val) ==
    IF val.t = "null" \/ val = JStr(<<>>) THEN JNull
    ELSE JStr(<<Backtick>> \o Replace(PyStr(val), "\n", <<" ">>) \o <<Backtick>>)

\* A faulty get_table_obj: a table listed by identifier is not looked up.
get_table_obj_inline_only(entry, uuid_map) ==
    IF entry.t = "dict" THEN entry ELSE JNull

get_table_obj(entry, uuid_map) ==
    IF entry.t = "dict" THEN entry
    ELSE IF entry \in DOMAIN uuid_map THEN uuid_map[entry]
    ELSE JNull

\* col_by_id = {c.get('@uuid'): c for c in all_table_columns if isinstance(c, dict)}
RECURSIVE col_by_id_of(_)
col_by_id_of(all_table_columns) ==
    IF all_table_columns = <<>> THEN EmptyMap
    ELSE LET c == all_table_columns[Len(all_table_columns)]
             rest == col_by_id_of(SubSeq(all_table_columns, 1, Len(all_table_columns) - 1))
         IN IF c.t = "dict" THEN (Get(c, "@uuid") :> c) @@ rest ELSE rest

\* table_name = t.get('name') or t.get('full-name')
table_name_of(t) ==
    Or(Get(t, "name"), Get(t, "full-name"))

\* the sort key: c.get('ordinal-position', 0)
ordinal_position(c) ==
    GetD(c, "ordinal-position", JInt(0))

\* A faulty sort: the columns stay in source order.
sort_by_ordinal_none(cols) ==
    cols

\* list.sort(key=...): stable, ascending.  Insertion of the last element after
\* every element whose key is not greater keeps equal keys in source order.
RECURSIVE sort_by_ordinal(_)
sort_by_ordinal(cols) ==
    IF Len(cols) <= 1 THEN cols
    ELSE LET c == cols[Len(cols)]
             sorted == sort_by_ordinal(SubSeq(cols, 1, Len(cols) - 1))
             k == Cardinality({n \in 1..Len(sorted) :
                                  ordinal_position(sorted[n]).n <= ordinal_position(c).n})
         IN SubSeq(sorted, 1, k) \o <<c>> \o SubSeq(sorted, k + 1, Len(sorted))

\* cols = [col_by_id[cid] for cid in col_ids if cid in col_by_id]; cols.sort(...)
table_cols(t, col_by_id) ==
    LET col_ids == listing(t, "columns")
        known(cid) == cid \in DOMAIN col_by_id
        ids == SelectSeq(col_ids, known)
    IN sort_by_ordinal([n \in 1..Len(ids) |-> col_by_id[ids[n]]])

\* [col_by_id[cid]['name'] for cid in ids if cid in col_by_id]
column_names(ids, col_by_id) ==
    LET known(cid) == cid \in DOMAIN col_by_id
        found == SelectSeq(ids, known)
    IN [n \in 1..Len(found) |-> Get(col_by_id[found[n]], "name")]

\* `if pk_id and pk_id in uuid_map`
has_pk(t, uuid_map) ==
    Truthy(Get(t, "primary-key")) /\ Get(t, "primary-key") \in DOMAIN uuid_map

\* pk_col_ids = unwrap(pk_obj.get('columns', [])) or []
pk_col_ids_of(t, uuid_map) ==
    IF has_pk(t, uuid_map) THEN listing(uuid_map[Get(t, "primary-key")], "columns") ELSE <<>>

\* pk_cols: the names of the primary key's columns found in col_by_id
pk_cols_of(t, uuid_map, col_by_id) ==
    column_names(pk_col_ids_of(t, uuid_map), col_by_id)

\* `x in xs` for a list xs
InList(x, xs) ==
    \E n \in 1..Len(xs) : xs[n] = x

\* attrs of one column
column_attrs(c, pk_cols) ==
    LET cname == Get(c, "name")
        dval == format_default(Get(c, "default-value"))
        note == Strip(Or(Get(c, "remarks"), JStr(<<>>)).s)
    IN (IF InList(cname, pk_cols) /\ Len(pk_cols) = 1 THEN <<lit_pk>> ELSE <<>>)
       \o (IF ~Truthy(GetD(c, "nullable", JBool(TRUE))) THEN <<lit_not_null>> ELSE <<>>)
       \o (IF Truthy(GetD(c, "part-of-unique-index", JBool(FALSE))) /\ ~InList(cname, pk_cols)
           THEN <<lit_unique>> ELSE <<>>)
       \o (IF Truthy(dval) THEN <<lit_default \o dval.s>> ELSE <<>>)
       \o (IF note # <<>>
           THEN <<lit_note \o Replace(note, "'", <<"'", "'">>) \o <<"'">> >> ELSE <<>>)

\* out_lines.append(f"  {sanitize_identifier(cname)} {ctype}{attr_str}")
column_line(c, pk_cols, uuid_map) ==
    LET ctype == Or(resolve_datatype(Get(c, "column-data-type"), uuid_map), JStr(lit_varchar))
        attrs == column_attrs(c, pk_cols)
        attr_str == IF attrs # <<>>
                    THEN <<" ", "[">> \o Join(<<",", " ">>, attrs) \o <<"]">>
                    ELSE <<>>
    IN <<" ", " ">> \o sanitize_identifier(Get(c, "name")) \o <<" ">> \o PyStr(ctype) \o attr_str

\* cols_list = ', '.join(sanitize_identifier(n) for n in names)
cols_list_of(names) ==
    Join(<<",", " ">>, [n \in 1..Len(names) |-> sanitize_identifier(names[n])])

\* index_entries: the table-constraints found in uuid_map whose @class ends with MutableIndex
index_entries_of(t, uuid_map) ==
    LET idxs == listing(t, "table-constraints")
        is_index(iid) == /\ iid \in DOMAIN uuid_map
                         /\ EndsWith(GetD(uuid_map[iid], "@class", JStr(<<>>)).s, lit_MutableIndex)
        found == SelectSeq(idxs, is_index)
    IN [n \in 1..Len(found) |-> uuid_map[found[n]]]

\* the composite primary key's entry of the indexes block
pk_index_lines(t, uuid_map, col_by_id) ==
    IF has_pk(t, uuid_map) /\ Len(pk_col_ids_of(t, uuid_map)) > 1
    THEN << <<" ", " ", "(">>
            \o cols_list_of(column_names(pk_col_ids_of(t, uuid_map), col_by_id))
            \o lit_index_pk >>
    ELSE <<>>

\* the unique indexes' entries of the indexes block
RECURSIVE unique_index_lines(_, _, _)
unique_index_lines(index_entries, pk_id, col_by_id) ==
    IF index_entries = <<>> THEN <<>>
    ELSE LET idx == Head(index_entries)
             cols_ids == listing(idx, "columns")
             rest == unique_index_lines(Tail(index_entries), pk_id, col_by_id)
         IN IF Get(idx, "@uuid") = pk_id THEN rest
            ELSE IF ~Truthy(GetD(idx, "unique", JBool(FALSE))) THEN rest
            ELSE IF cols_ids = <<>> THEN rest
            ELSE << <<" ", " ", "(">>
                    \o cols_list_of(column_names(cols_ids, col_by_id))
                    \o lit_index_unique >> \o rest

index_lines_of(t, uuid_map, col_by_id) ==
    pk_index_lines(t, uuid_map, col_by_id)
    \o unique_index_lines(index_entries_of(t, uuid_map), Get(t, "primary-key"), col_by_id)

\* the lines one table appends to out_lines
table_lines(t, uuid_map, col_by_id) ==
    LET cols == table_cols(t, col_by_id)
        pk_cols == pk_cols_of(t, uuid_map, col_by_id)
        table_note == Strip(Or(Get(t, "remarks"), JStr(<<>>)).s)
        index_lines == index_lines_of(t, uuid_map, col_by_id)
    IN << lit_Table \o sanitize_identifier(table_name_of(t)) \o <<" ", "{">> >>
       \o [n \in 1..Len(cols) |-> column_line(cols[n], pk_cols, uuid_map)]
       \o (IF table_note # <<>>
           THEN << lit_table_note \o Replace(table_note, "'", <<"'", "'">>) \o <<"'">> >>
           ELSE <<>>)
       \o (IF index_lines # <<>>
           THEN <<lit_indexes>> \o index_lines \o <<lit_indexes_close>>
           ELSE <<>>)
       \o <<lit_table_close>>

\* fk = fk_entry if isinstance(fk_entry, dict) else uuid_map.get(fk_entry)
fk_of(fk_entry, uuid_map) ==
    IF fk_entry.t = "dict" THEN fk_entry
    ELSE IF fk_entry \in DOMAIN uuid_map THEN uuid_map[fk_entry]
    ELSE JNull

\* ref_table = uuid_map.get(rt, {}) if isinstance(rt, str) else fk.get('referenced-table', {})
ref_table_of(fk, uuid_map) ==
    LET rt == Get(fk, "referenced-table")
    IN IF rt.t = "str"
       THEN (IF rt \in DOMAIN uuid_map THEN uuid_map[rt] ELSE JDict(<<>>))
       ELSE GetD(fk, "referenced-table", JDict(<<>>))

\* fk.get(k, ['',''])[1] if isinstance(fk.get(k), list) else ''
rule_of(fk, k) ==
    IF Get(fk, k).t = "list" THEN Get(fk, k).items[2] ELSE JStr(<<>>)

\* col_by_id.get(cid, {}).get('name')
col_name_by_id(cid, col_by_id) ==
    IF cid \in DOMAIN col_by_id THEN Get(col_by_id[cid], "name") ELSE JNull

\* A faulty opt_str: the update rule is left out.
opt_str_of_delete_only(fk) ==
    LET delete_rule == rule_of(fk, "delete-rule")
    IN IF Truthy(delete_rule)
       THEN <<" ", "[">> \o lit_delete \o PyStr(delete_rule) \o <<"]">>
       ELSE <<>>

\* opt_str of a foreign key
opt_str_of(fk) ==
    LET delete_rule == rule_of(fk, "delete-rule")
        update_rule == rule_of(fk, "update-rule")
        opts == (IF Truthy(delete_rule) THEN <<lit_delete \o PyStr(delete_rule)>> ELSE <<>>)
                \o (IF Truthy(update_rule) THEN <<lit_update \o PyStr(update_rule)>> ELSE <<>>)
    IN IF opts # <<>> THEN <<" ", "[">> \o Join(<<",", " ">>, opts) \o <<"]">> ELSE <<>>

\* A faulty loop over the column references: no pair is suppressed.
RECURSIVE fk_refs_all_pairs(_, _, _, _, _)
fk_refs_all_pairs(col_refs, fk, table_name, ref_table_name, col_by_id) ==
    IF col_refs = <<>> THEN <<>>
    ELSE LET cr == Head(col_refs)
             fk_col == col_name_by_id(Get(cr, "foreign-key-column"), col_by_id)
             pk_col == col_name_by_id(Get(cr, "primary-key-column"), col_by_id)
             rest == fk_refs_all_pairs(Tail(col_refs), fk, table_name, ref_table_name,
                                       col_by_id)
         IN IF ~Truthy(fk_col) \/ ~Truthy(pk_col) THEN rest
            ELSE << lit_Ref \o sanitize_identifier(ref_table_name) \o <<".">>
                    \o sanitize_identifier(pk_col) \o <<" ", ">", " ">>
                    \o sanitize_identifier(table_name) \o <<".">>
                    \o sanitize_identifier(fk_col) \o opt_str_of(fk) >> \o rest

\* the Ref lines of one foreign key: the loop over its column references
RECURSIVE fk_refs(_, _, _, _, _)
fk_refs(col_refs, fk, table_name, ref_table_name, col_by_id) ==
    IF col_refs = <<>> THEN <<>>
    ELSE LET cr == Head(col_refs)
             fk_col == col_name_by_id(Get(cr, "foreign-key-column"), col_by_id)
             pk_col == col_name_by_id(Get(cr, "primary-key-column"), col_by_id)
             rest == fk_refs(Tail(col_refs), fk, table_name, ref_table_name, col_by_id)
         IN IF ~Truthy(fk_col) \/ ~Truthy(pk_col) THEN rest
            ELSE IF ref_table_name = table_name /\ pk_col = fk_col THEN rest
            ELSE << lit_Ref \o sanitize_identifier(ref_table_name) \o <<".">>
                    \o sanitize_identifier(pk_col) \o <<" ", ">", " ">>
                    \o sanitize_identifier(table_name) \o <<".">>
                    \o sanitize_identifier(fk_col) \o opt_str_of(fk) >> \o rest

\* the Ref lines one table appends to refs: the loop over its foreign keys
RECURSIVE table_refs(_, _, _, _)
table_refs(fk_entries, t, uuid_map, col_by_id) ==
    IF fk_entries = <<>> THEN <<>>
    ELSE LET fk == fk_of(Head(fk_entries), uuid_map)
             rest == table_refs(Tail(fk_entries), t, uuid_map, col_by_id)
         IN IF ~Truthy(fk) \/ fk.t # "dict" THEN rest
            ELSE LET ref_table == ref_table_of(fk, uuid_map)
                     ref_table_name == Or(Get(ref_table, "name"), Get(ref_table, "full-name"))
                 IN fk_refs(listing(fk, "column-references"), fk, table_name_of(t),
                            ref_table_name, col_by_id) \o rest

\* tables = [get_table_obj(e, uuid_map) for e in table_entries if get_table_obj(e, uuid_map)]
tables_of(data, uuid_map) ==
    LET catalog == GetD(data, "catalog", JDict(<<>>))
        table_entries == listing(catalog, "tables")
        found(e) == Truthy(get_table_obj(e, uuid_map))
        kept == SelectSeq(table_entries, found)
    IN [n \in 1..Len(kept) |-> get_table_obj(kept[n], uuid_map)]

\* A faulty lookup of key columns: without the filter `if cid in col_by_id`,
\* col_by_id[cid] raises KeyError also for an identifier no column has.
names_raise_unfiltered(ids, col_by_id) ==
    \E n \in 1..Len(ids) :
        ids[n] \notin DOMAIN col_by_id \/ ~HasKey(col_by_id[ids[n]], "name")

\* col_by_id[cid]['name'] raises KeyError for a found column without a name key
names_raise(ids, col_by_id) ==
    \E n \in 1..Len(ids) : ids[n] \in DOMAIN col_by_id /\ ~HasKey(col_by_id[ids[n]], "name")

\* The exceptions the body of `for t in tables` raises for one table: TypeError
\* from re.match on a name that is no str, TypeError from sorting keys that are
\* not numbers, KeyError from a nameless key column, AttributeError from a
\* referenced-table that is neither a str nor a dict, IndexError from a rule
\* list shorter than two.
table_raises(t, uuid_map, col_by_id) ==
    LET cols == table_cols(t, col_by_id)
        fks == listing(t, "foreign-keys")
        idxs == index_entries_of(t, uuid_map)
    IN \/ sanitize_identifier_raises(table_name_of(t))
       \/ Len(listing(t, "columns")) > 1
          /\ \E n \in 1..Len(listing(t, "columns")) :
                /\ listing(t, "columns")[n] \in DOMAIN col_by_id
                /\ ordinal_position(col_by_id[listing(t, "columns")[n]]).t # "int"
       \/ names_raise(pk_col_ids_of(t, uuid_map), col_by_id)
       \/ \E n \in 1..Len(cols) : sanitize_identifier_raises(Get(cols[n], "name"))
       \/ \E n \in 1..Len(idxs) :
             /\ Get(idxs[n], "@uuid") # Get(t, "primary-key")
             /\ Truthy(GetD(idxs[n], "unique", JBool(FALSE)))
             /\ names_raise(listing(idxs[n], "columns"), col_by_id)
       \/ \E n \in 1..Len(fks) :
             LET fk == fk_of(fks[n], uuid_map)
             IN /\ Truthy(fk)
                /\ fk.t = "dict"
                /\ \/ ref_table_of(fk, uuid_map).t # "dict"
                   \/ /\ listing(fk, "column-references") # <<>>
                      /\ \E k \in {"delete-rule", "update-rule"} :
                            Get(fk, k).t = "list" /\ Len(Get(fk, k).items) < 2

\* concatenation of a sequence of sequences
RECURSIVE Flatten(_)
Flatten(seqs) ==
    IF seqs = <<>> THEN <<>> ELSE Head(seqs) \o Flatten(Tail(seqs))

\* What a call returns: a value, or an exception that propagates to the caller.
Returned(v) ==
    [raised |-> FALSE, value |-> v]

Raised ==
    [raised |-> TRUE]

\* load_json: json.load raises on text that is not JSON
load_json(content) ==
    IF content = InvalidJson THEN Raised ELSE Returned(content)

\* out_lines and refs after the loop over the tables
out_lines_of(data) ==
    LET uuid_map == collect_uuid_map(data, EmptyMap)
        col_by_id == col_by_id_of(listing(data, "all-table-columns"))
        tables == tables_of(data, uuid_map)
    IN Flatten([n \in 1..Len(tables) |-> table_lines(tables[n], uuid_map, col_by_id)])

refs_of(data) ==
    LET uuid_map == collect_uuid_map(data, EmptyMap)
        col_by_id == col_by_id_of(listing(data, "all-table-columns"))
        tables == tables_of(data, uuid_map)
    IN Flatten([n \in 1..Len(tables) |->
                   table_refs(listing(tables[n], "foreign-keys"), tables[n], uuid_map, col_by_id)])

convert_to_dbml_raises(data) ==
    \/ collect_uuid_map_raises(data)
    \/ data.t # "dict"
    \/ GetD(data, "catalog", JDict(<<>>)).t # "dict"
    \/ LET uuid_map == collect_uuid_map(data, EmptyMap)
           col_by_id == col_by_id_of(listing(data, "all-table-columns"))
           tables == tables_of(data, uuid_map)
       IN \E n \in 1..Len(tables) : table_raises(tables[n], uuid_map, col_by_id)

\* convert_to_dbml(json_path): the DBML text of one file, or an exception
convert_to_dbml(content) ==
    IF load_json(content).raised THEN Raised
    ELSE LET data == load_json(content).value
         IN IF convert_to_dbml_raises(data) THEN Raised
            ELSE Returned(Join(<<"\n">>, out_lines_of(data) \o refs_of(data)))

(***************************************************************************)
(* convert_schemacrawler_to_dbml.py                                        *)
(***************************************************************************)
lit_text ==
    <<"t", "e", "x", "t">>

lit_increment ==
    <<"i", "n", "c", "r", "e", "m", "e", "n", "t">>

lit_null ==
    <<"n", "u", "l", "l">>

\* bad = ' -.:/\\`"\''
bad_chars ==
    {" ", "-", ".", ":", "/", "\\", Backtick, "\"", "'"}

\* the prefixes of dv.lower().startswith((...))
sql_prefixes ==
    { <<"n", "e", "x", "t", "v", "a", "l">>,
      <<"u", "u", "i", "d", "_">>,
      <<"n", "o", "w">>,
      <<"c", "u", "r", "r", "e", "n", "t", "_">>,
      <<"g", "e", "n", "_", "r", "a", "n", "d", "o", "m", "_", "u", "u", "i", "d">> }

\* walk() assigns index[uid] = o in pre-order: the object visited later stays.
RECURSIVE index_by_uuid_walk(_, _)
RECURSIVE index_by_uuid_each(_)
index_by_uuid_walk(o, index) ==
    IF o.t = "dict"
    THEN LET uid == Get(o, "@uuid")
         IN index_by_uuid_each(Values(o))
            @@ (IF uid.t = "str" THEN (uid :> o) ELSE EmptyMap)
            @@ index
    ELSE IF o.t = "list"
    THEN index_by_uuid_each(o.items) @@ index
    ELSE index

index_by_uuid_each(items) ==
    IF items = <<>> THEN EmptyMap
    ELSE index_by_uuid_each(Tail(items)) @@ index_by_uuid_walk(Head(items), EmptyMap)

index_by_uuid(obj) ==
    index_by_uuid_walk(obj, EmptyMap)

safe_ident(name) ==
    IF name.t = "null" THEN <<"\"", "\"">>
    ELSE IF \E c \in bad_chars : HasChar(name.s, c)
    THEN <<"\"">> \o name.s \o <<"\"">>
    ELSE name.s

resolve_db_type(col_obj, uuid_index) ==
    LET type_uuid == Get(col_obj, "type")
        base == IF Truthy(type_uuid) /\ type_uuid \in DOMAIN uuid_index
                THEN LET t == uuid_index[type_uuid]
                     IN Or(Or(Or(Get(t, "database-specific-type-name"),
                                 Get(t, "local-type-name")),
                              Get(t, "standard-type-name")),
                           JStr(lit_text))
                ELSE JStr(lit_text)
        width == Get(col_obj, "width")
        size == Get(col_obj, "size")
        size_str == IF width.t = "str" /\ StartsWith(Strip(width.s), <<"(">>)
                    THEN Strip(width.s)
                    ELSE IF size.t = "int" /\ size.n > 0
                    THEN <<"(">> \o IntToStr(size.n) \o <<")">>
                    ELSE <<>>
    IN PyStr(base) \o size_str

\* `type_uuid in uuid_index` raises TypeError for a truthy unhashable type_uuid
resolve_db_type_raises(col_obj) ==
    Truthy(Get(col_obj, "type")) /\ ~Hashable(Get(col_obj, "type"))

sanitize_default(default_value) ==
    IF ~Truthy(default_value) THEN JNull
    ELSE LET dv == Strip(PyStr(default_value))
             quoted == JStr(<<"\"">> \o Replace(dv, "\"", <<"\\", "\"">>) \o <<"\"">>)
         IN IF \/ HasChar(dv, "(") \/ HasChar(dv, ")")
               \/ Contains(dv, <<":", ":">>)
               \/ \E p \in sql_prefixes : StartsWith(Lower(dv), p)
            THEN quoted
            ELSE IF \E c \in {" ", ":", "'", "\""} : HasChar(dv, c)
            THEN quoted
            ELSE JStr(dv)

\* full.split(".", 2): schema, table, colname
split_full_name(full) ==
    LET d1 == CHOOSE n \in 1..Len(full) :
                  full[n] = "." /\ \A m \in 1..(n - 1) : full[m] # "."
        d2 == CHOOSE n \in (d1 + 1)..Len(full) :
                  full[n] = "." /\ \A m \in (d1 + 1)..(n - 1) : full[m] # "."
    IN [schema |-> SubSeq(full, 1, d1 - 1),
        table |-> SubSeq(full, d1 + 1, d2 - 1),
        colname |-> SubSeq(full, d2 + 1, Len(full))]

\* columns = cols_block[1] if isinstance(cols_block, list) and len(cols_block) >= 2 else []
\* then `for col in columns` with its two `continue` tests.  Iterating a dict or
\* a str yields only strs, which the isinstance test skips.
\* columns = cols_block[1] if isinstance(cols_block, list) and len(cols_block) >= 2 else []
to_dbml_cols_payload(input_json) ==
    LET cols_block == GetD(input_json, "all-table-columns", JList(<<>>))
    IN IF cols_block.t = "list" /\ Len(cols_block.items) >= 2
       THEN cols_block.items[2] ELSE JList(<<>>)

to_dbml_columns(input_json) ==
    LET columns == to_dbml_cols_payload(input_json)
        kept(col) == /\ col.t = "dict"
                     /\ Truthy(Get(col, "full-name"))
                     /\ Count(Get(col, "full-name").s, ".") >= 2
    IN IF columns.t = "list" THEN SelectSeq(columns.items, kept) ELSE <<>>

\* `for col in columns` raises TypeError when columns is not iterable
to_dbml_columns_raise(input_json) ==
    LET cols_block == GetD(input_json, "all-table-columns", JList(<<>>))
    IN /\ cols_block.t = "list"
       /\ Len(cols_block.items) >= 2
       /\ cols_block.items[2].t \in {"null", "int", "bool"}

\* col_entry
col_entry_of(col, uuid_index) ==
    [name |-> Or(Get(col, "name"), JStr(split_full_name(Get(col, "full-name").s).colname)),
     type |-> resolve_db_type(col, uuid_index),
     nullable |-> GetD(col, "nullable", JBool(TRUE)),
     default |-> sanitize_default(Get(col, "default-value")),
     pk |-> GetD(col, "part-of-primary-key", JBool(FALSE)),
     unique |-> GetD(col, "part-of-unique-index", JBool(FALSE)),
     auto |-> GetD(col, "auto-incremented", JBool(FALSE)),
     generated |-> GetD(col, "generated", JBool(FALSE)),
     remarks |-> Or(Get(col, "remarks"), JStr(<<>>))]

\* the key (schema, table) of a column
table_key(col) ==
    LET parts == split_full_name(Get(col, "full-name").s)
    IN <<parts.schema, parts.table>>

\* Python's < on the (schema, table) tuples
key_less(a, b) ==
    IF a[1] # b[1] THEN StrLess(a[1], b[1]) ELSE StrLess(a[2], b[2])

\* sorted(tables.items()): the distinct keys in ascending order
RECURSIVE sorted_keys(_)
sorted_keys(keys) ==
    IF keys = {} THEN <<>>
    ELSE LET least == CHOOSE k \in keys : \A other \in keys \ {k} : key_less(k, other)
         IN <<least>> \o sorted_keys(keys \ {least})

\* the line of one column entry
to_dbml_column_line(c) ==
    LET attrs == (IF Truthy(c.pk) THEN <<lit_pk>> ELSE <<>>)
                 \o (IF Truthy(c.unique) THEN <<lit_unique>> ELSE <<>>)
                 \o (IF Truthy(c.auto) THEN <<lit_increment>> ELSE <<>>)
                 \o (IF ~Truthy(c.nullable) THEN <<lit_not_null>> ELSE <<>>)
                 \o (IF c.default \notin {JNull, JStr(<<>>), JStr(lit_null)}
                     THEN <<lit_default \o PyStr(c.default)>> ELSE <<>>)
        attr_str == IF attrs # <<>>
                    THEN <<" ", "[">> \o Join(<<",", " ">>, attrs) \o <<"]">>
                    ELSE <<>>
        note == IF Truthy(c.remarks)
                THEN <<" ", "/", "/", " ">> \o Replace(c.remarks.s, "\"", <<"\\", "\"">>)
                ELSE <<>>
    IN <<" ", " ">> \o safe_ident(c.name) \o <<" ">> \o c.type \o attr_str \o note

\* the block of one (schema, table) key
to_dbml_table_lines(key, columns, uuid_index) ==
    LET mine(col) == table_key(col) = key
        cols == SelectSeq(columns, mine)
        tname == key[1] \o <<".">> \o key[2]
    IN << lit_Table \o safe_ident(JStr(tname)) \o <<" ", "{">> >>
       \o [n \in 1..Len(cols) |-> to_dbml_column_line(col_entry_of(cols[n], uuid_index))]
       \o <<lit_table_close>>

to_dbml_raises(input_json) ==
    \/ input_json.t # "dict"
    \/ to_dbml_columns_raise(input_json)
    \/ \E n \in 1..Len(to_dbml_columns(input_json)) :
          resolve_db_type_raises(to_dbml_columns(input_json)[n])

\* to_dbml(input_json): the DBML text, or an exception
to_dbml(input_json) ==
    IF to_dbml_raises(input_json) THEN Raised
    ELSE LET uuid_index == index_by_uuid(input_json)
             columns == to_dbml_columns(input_json)
             keys == sorted_keys({table_key(columns[n]) : n \in 1..Len(columns)})
         IN Returned(Join(<<"\n">>,
                Flatten([n \in 1..Len(keys) |->
                            to_dbml_table_lines(keys[n], columns, uuid_index)])))

(***************************************************************************)
(* Input documents.  The texts used in them, spelled as Python strs.       *)
(***************************************************************************)
txt ==
    [public |-> <<"p", "u", "b", "l", "i", "c">>,
     users |-> <<"u", "s", "e", "r", "s">>,
     orders |-> <<"o", "r", "d", "e", "r", "s">>,
     items |-> <<"i", "t", "e", "m", "s">>,
     id |-> <<"i", "d">>,
     email |-> <<"e", "m", "a", "i", "l">>,
     full_name |-> <<"f", "u", "l", "l", " ", "n", "a", "m", "e">>,
     age |-> <<"a", "g", "e">>,
     note |-> <<"n", "o", "t", "e">>,
     user_id |-> <<"u", "s", "e", "r", "_", "i", "d">>,
     parent_id |-> <<"p", "a", "r", "e", "n", "t", "_", "i", "d">>,
     parent |-> <<"p", "a", "r", "e", "n", "t">>,
     integer |-> <<"i", "n", "t", "e", "g", "e", "r">>,
     varchar |-> <<"v", "a", "r", "c", "h", "a", "r">>,
     text |-> <<"t", "e", "x", "t">>,
     cascade |-> <<"c", "a", "s", "c", "a", "d", "e">>,
     restrict |-> <<"r", "e", "s", "t", "r", "i", "c", "t">>,
     width255 |-> <<"(", "2", "5", "5", ")">>,
     now |-> <<"n", "o", "w", "(", ")">>,
     remark |-> <<"u", "s", "e", "r", "'", "s", " ", "n", "a", "m", "e">>,
     zero |-> <<"0">>,
     a |-> <<"a">>,
     b |-> <<"b">>,
     c |-> <<"c">>,
     x1 |-> <<"_", "x", "1">>,
     Order |-> <<"O", "r", "d", "e", "r">>,
     a_dash_b |-> <<"a", "-", "b">>,
     my_col |-> <<"m", "y", " ", "c", "o", "l">>,
     one_a |-> <<"1", "a">>,
     a_dot_b |-> <<"a", ".", "b">>,
     ab_newline |-> <<"a", "b", "\n">>,
     a_plus_b |-> <<"a", "+", "b">>,
     ArrayList |-> <<"j", "a", "v", "a", ".", "u", "t", "i", "l", ".", "A", "r", "r", "a", "y", "L", "i", "s", "t">>,
     PrimaryKeyClass |-> <<"s", "c", "h", "e", "m", "a", "c", "r", "a", "w", "l", "e", "r", ".", "c", "r", "a", "w", "l", ".", "M", "u", "t", "a", "b", "l", "e", "P", "r", "i", "m", "a", "r", "y", "K", "e", "y">>,
     IndexClass |-> <<"s", "c", "h", "e", "m", "a", "c", "r", "a", "w", "l", "e", "r", ".", "c", "r", "a", "w", "l", ".", "M", "u", "t", "a", "b", "l", "e", "I", "n", "d", "e", "x">>,
     RuleClass |-> <<"s", "c", "h", "e", "m", "a", "c", "r", "a", "w", "l", "e", "r", ".", "s", "c", "h", "e", "m", "a", ".", "F", "o", "r", "e", "i", "g", "n", "K", "e", "y", "U", "p", "d", "a", "t", "e", "R", "u", "l", "e">>,
     notes_txt |-> <<"n", "o", "t", "e", "s", ".", "t", "x", "t">>,
     out_dbml |-> <<"o", "u", "t", ".", "d", "b", "m", "l">>]

\* Bounds of the input space.
MaxCols == 3
MaxFiles == 4

\* An identifier (@uuid) made of a letter and a digit, e.g. "c1".
Uuid(letter, k) ==
    JStr(<<letter, Chr(48 + k)>>)

\* ["java.util.ArrayList", [...]]: a tagged container
Tagged(xs) ==
    JList(<<JStr(txt.ArrayList), JList(xs)>>)

\* A collection-valued field, tagged or plain.
Coll(wrap, xs) ==
    IF wrap THEN Tagged(xs) ELSE JList(xs)

\* A column data type object.
DataType(uuid, name) ==
    JDict(<< <<"@uuid", uuid>>,
             <<"name", JStr(name)>>,
             <<"database-specific-type-name", JStr(name)>>,
             <<"full-name", JStr(name)>> >>)

\* A column object of all-table-columns.  p gives its fields; dtref is its
\* data-type reference (an inline object, an identifier, or null).
Column(p, dtref) ==
    JDict(<< <<"@uuid", p.uuid>>,
             <<"name", JStr(p.name)>>,
             <<"full-name", JStr(p.table \o <<".">> \o p.name)>>,
             <<"ordinal-position", JInt(p.ord)>>,
             <<"column-data-type", dtref>> >>
          \o (IF dtref.t = "dict" THEN <<>> ELSE << <<"type", dtref>> >>)
          \o << <<"nullable", JBool(p.nullable)>>,
                <<"part-of-primary-key", JBool(p.pk)>>,
                <<"part-of-unique-index", JBool(p.unique)>>,
                <<"auto-incremented", JBool(p.auto)>>,
                <<"default-value", p.default>>,
                <<"remarks", p.remarks>>,
                <<"size", p.size>>,
                <<"width", p.width>> >>)

\* The fields of a plain column: nullable, no key, no default, no remark.
PlainCol(uuid, table, name, ord) ==
    [uuid |-> uuid, table |-> table, name |-> name, ord |-> ord,
     nullable |-> TRUE, pk |-> FALSE, unique |-> FALSE, auto |-> FALSE,
     default |-> JNull, remarks |-> JNull, size |-> JInt(0), width |-> JStr(<<>>)]

\* A table object.
Table(uuid, name, full, remarks, wrap, col_ids, pk_id, constraint_ids, fk_entries) ==
    JDict(<< <<"@uuid", uuid>>,
             <<"name", JStr(name)>>,
             <<"full-name", JStr(full)>>,
             <<"remarks", remarks>>,
             <<"columns", Coll(wrap, col_ids)>>,
             <<"primary-key", pk_id>>,
             <<"table-constraints", Coll(wrap, constraint_ids)>>,
             <<"foreign-keys", Coll(wrap, fk_entries)>> >>)

\* A primary-key construct or an index: an ordered list of column identifiers.
KeyObject(uuid, class, unique, wrap, col_ids) ==
    JDict(<< <<"@uuid", uuid>>,
             <<"@class", JStr(class)>>,
             <<"unique", JBool(unique)>>,
             <<"columns", Coll(wrap, col_ids)>> >>)

\* A foreign key; a rule is a tagged pair [class, rule name] or absent (null).
Rule(name) ==
    IF name = <<>> THEN JNull ELSE JList(<<JStr(txt.RuleClass), JStr(name)>>)

\* ref_field is the referenced-table field, or nothing when the key is missing.
ForeignKey(uuid, ref_field, pairs, delete_rule, update_rule) ==
    JDict(<< <<"@uuid", uuid>> >> \o ref_field
          \o << <<"column-references",
                  Tagged([n \in 1..Len(pairs) |->
                          JDict(<< <<"foreign-key-column", pairs[n][1]>>,
                                   <<"primary-key-column", pairs[n][2]>> >>)])>>,
                <<"delete-rule", Rule(delete_rule)>>,
                <<"update-rule", Rule(update_rule)>> >>)

\* The whole export.  With by_ref the catalog lists the tables by identifier
\* and the table objects stand among the definitions; otherwise the catalog
\* holds the table objects themselves.
Document(wrap, by_ref, tables, columns, definitions) ==
    JDict(<< <<"all-table-columns", Tagged(columns)>>,
             <<"definitions", JList(definitions \o (IF by_ref THEN tables ELSE <<>>))>>,
             <<"catalog",
               JDict(<< <<"tables",
                          Coll(wrap, IF by_ref
                                     THEN [n \in 1..Len(tables) |-> Get(tables[n], "@uuid")]
                                     ELSE tables)>> >>)>> >>)

\* All orderings of a finite set, as sequences.
RECURSIVE Perms(_)
Perms(S) ==
    IF S = {} THEN {<<>>}
    ELSE UNION {{<<x>> \o p : p \in Perms(S \ {x})} : x \in S}

\* The data types every document defines: d1 integer, d2 varchar, d3 text.
BaseTypes ==
    <<DataType(Uuid("d", 1), txt.integer), DataType(Uuid("d", 3), txt.text)>>

VarcharType ==
    DataType(Uuid("d", 2), txt.varchar)

(***************************************************************************)
(* Family "users": one table public.users with the first n columns of      *)
(*   id        ordinal 1, integer, not null, primary key, auto-incremented *)
(*   email     ordinal 2, varchar, width (255), unique, nullable           *)
(*   full name ordinal 3, text, default now(), remark "user's name"        *)
(*   age       ordinal 4, integer, default 0                               *)
(*   note      ordinal 5, text                                             *)
(* listed in the source order `order`; the type of email is referenced in  *)
(* one of four ways.                                                       *)
(***************************************************************************)
TypeRefModes ==
    {"ref", "inline", "dangling", "null"}

UsersTable ==
    txt.public \o <<".">> \o txt.users

UsersColumn(k, type_mode) ==
    LET base == PlainCol(Uuid("c", k), UsersTable, txt.id, k)
    IN CASE k = 1 -> Column([base EXCEPT !.nullable = FALSE, !.pk = TRUE, !.auto = TRUE],
                            Uuid("d", 1))
         [] k = 2 -> Column([base EXCEPT !.name = txt.email, !.unique = TRUE,
                                         !.size = JInt(255), !.width = JStr(txt.width255)],
                            CASE type_mode = "ref" -> Uuid("d", 2)
                              [] type_mode = "inline" -> VarcharType
                              [] type_mode = "dangling" -> Uuid("d", 9)
                              [] type_mode = "null" -> JNull)
         [] k = 3 -> Column([base EXCEPT !.name = txt.full_name, !.default = JStr(txt.now),
                                         !.remarks = JStr(txt.remark)],
                            Uuid("d", 3))
         [] k = 4 -> Column([base EXCEPT !.name = txt.age, !.default = JStr(txt.zero)],
                            Uuid("d", 1))
         [] OTHER -> Column([base EXCEPT !.name = txt.note], Uuid("d", 3))

UsersDoc(order, wrap, type_mode) ==
    Document(wrap, wrap,
             << Table(Uuid("t", 1), txt.users, UsersTable, JNull, wrap,
                      [n \in 1..Len(order) |-> Uuid("c", order[n])],
                      Uuid("p", 1), <<>>, <<>>) >>,
             [n \in 1..Len(order) |-> UsersColumn(order[n], type_mode)],
             BaseTypes
             \o (IF type_mode = "ref" THEN <<VarcharType>> ELSE <<>>)
             \o << KeyObject(Uuid("p", 1), txt.PrimaryKeyClass, TRUE, wrap, <<Uuid("c", 1)>>) >>)

UsersDocs ==
    {UsersDoc(order, wrap, type_mode) :
        order \in UNION {Perms(1..n) : n \in 1..MaxCols},
        wrap \in BOOLEAN,
        type_mode \in TypeRefModes}

(***************************************************************************)
(* Family "names": one table named tn with the columns cn (ordinal 1) and  *)
(* parent (ordinal 2), a unique index on cn and a foreign key              *)
(* parent -> cn into the table itself, so that both names appear in the    *)
(* header, a column line, the indexes block and a Ref statement.           *)
(***************************************************************************)
Names ==
    {txt.users, txt.id, txt.x1, txt.Order,
     txt.a_dash_b, txt.my_col, txt.one_a, txt.a_dot_b, txt.a_plus_b, txt.ab_newline}

NamesDoc(tn, cn) ==
    LET full == txt.public \o <<".">> \o tn
    IN Document(TRUE, TRUE,
                << Table(Uuid("t", 1), tn, full, JNull, TRUE,
                         <<Uuid("c", 1), Uuid("c", 2)>>, JNull,
                         <<Uuid("x", 1)>>, <<Uuid("f", 1)>>) >>,
                << Column([PlainCol(Uuid("c", 1), full, cn, 1) EXCEPT !.unique = TRUE],
                          Uuid("d", 1)),
                   Column(PlainCol(Uuid("c", 2), full, txt.parent, 2), Uuid("d", 1)) >>,
                BaseTypes
                \o << KeyObject(Uuid("x", 1), txt.IndexClass, TRUE, TRUE, <<Uuid("c", 1)>>),
                      ForeignKey(Uuid("f", 1), << <<"referenced-table", Uuid("t", 1)>> >>,
                                 << <<Uuid("c", 2), Uuid("c", 1)>> >>, <<>>, <<>>) >>)

NamesDocs ==
    {NamesDoc(tn, cn) : tn \in Names, cn \in Names}

(***************************************************************************)
(* Family "keys": one table public.items with the columns a, b, c          *)
(* (ordinals 1, 2, 3), a primary key and an index chosen independently.    *)
(*   pk:  none | single (a) | composite (a, b) | partial (a and an         *)
(*        identifier no column has) | dangling (an identifier no object    *)
(*        has) | empty (a construct without columns)                       *)
(*   idx: none | u_a | u_ab | u_b (unique indexes on those columns, with   *)
(*        an identifier of their own) | n_c (a non-unique index on c) |    *)
(*        u_empty (a unique index without columns) | pk_itself (the        *)
(*        primary key is itself the listed index)                          *)
(***************************************************************************)
PkKinds ==
    {"none", "single", "composite", "partial", "dangling", "empty"}

IdxKinds ==
    {"none", "u_a", "u_ab", "u_b", "n_c", "u_empty", "pk_itself"}

ItemsTable ==
    txt.public \o <<".">> \o txt.items

PkColumnIds(pk) ==
    CASE pk = "single" -> <<Uuid("c", 1)>>
      [] pk = "composite" -> <<Uuid("c", 1), Uuid("c", 2)>>
      [] pk = "partial" -> <<Uuid("c", 1), Uuid("c", 9)>>
      [] OTHER -> <<>>

IdxColumnIds(idx) ==
    CASE idx = "u_a" -> <<Uuid("c", 1)>>
      [] idx = "u_ab" -> <<Uuid("c", 1), Uuid("c", 2)>>
      [] idx = "u_b" -> <<Uuid("c", 2)>>
      [] idx = "n_c" -> <<Uuid("c", 3)>>
      [] OTHER -> <<>>

KeysDoc(pk, idx, wrap) ==
    LET in_pk(k) == InList(Uuid("c", k), PkColumnIds(pk))
        in_unique(k) == \/ idx # "n_c" /\ InList(Uuid("c", k), IdxColumnIds(idx))
                        \/ idx = "pk_itself" /\ in_pk(k)
        col(k, name) == Column([PlainCol(Uuid("c", k), ItemsTable, name, k)
                                   EXCEPT !.pk = in_pk(k), !.nullable = ~in_pk(k),
                                          !.unique = in_unique(k)],
                               Uuid("d", 1))
        pk_id == CASE pk = "none" -> JNull
                   [] pk = "dangling" -> Uuid("p", 9)
                   [] OTHER -> Uuid("p", 1)
        pk_objects == IF pk \in {"none", "dangling"} THEN <<>>
                      ELSE << KeyObject(Uuid("p", 1),
                                        IF idx = "pk_itself" THEN txt.IndexClass
                                        ELSE txt.PrimaryKeyClass,
                                        TRUE, wrap, PkColumnIds(pk)) >>
        idx_objects == IF idx \in {"none", "pk_itself"} THEN <<>>
                       ELSE << KeyObject(Uuid("x", 1), txt.IndexClass, idx # "n_c", wrap,
                                         IdxColumnIds(idx)) >>
        constraint_ids == CASE idx = "none" -> <<>>
                            [] idx = "pk_itself" -> <<pk_id>>
                            [] OTHER -> <<Uuid("x", 1)>>
    IN Document(wrap, wrap,
                << Table(Uuid("t", 1), txt.items, ItemsTable, JNull, wrap,
                         <<Uuid("c", 1), Uuid("c", 2), Uuid("c", 3)>>, pk_id,
                         constraint_ids, <<>>) >>,
                <<col(1, txt.a), col(2, txt.b), col(3, txt.c)>>,
                BaseTypes \o pk_objects \o idx_objects)

KeysDocs ==
    {KeysDoc(pk, idx, wrap) :
        pk \in PkKinds, idx \in {k \in IdxKinds : k # "pk_itself"}, wrap \in BOOLEAN}
    \cup {KeysDoc(pk, "pk_itself", wrap) :
             pk \in PkKinds \ {"none", "dangling"}, wrap \in BOOLEAN}

(***************************************************************************)
(* Family "refs": the tables orders (id c1, user_id c2) and users (id c3,  *)
(* parent_id c4), each with the single-column primary key id, and one      *)
(* foreign key f1 owned by `owner`.                                        *)
(*   target: users | orders (by identifier) | inline (the users table as   *)
(*           an inline object) | dangling (an identifier no object has) |  *)
(*           missing (no referenced-table field) | null                    *)
(*   pairs:  which (local, referenced) column pairs the key has; L1, L2    *)
(*           are the owner's columns, R1, R2 the target's, Rx an           *)
(*           identifier no column has                                      *)
(*   rules:  the delete and update rule names, empty when absent           *)
(***************************************************************************)
Owners ==
    {"orders", "users"}

Targets ==
    {"users", "orders", "inline", "dangling", "missing", "null"}

PairKinds ==
    {"L2R1", "L1R1", "L2R2", "L1R1_L2R2", "L1R1_L2R1", "L2Rx", "L2R1_L2Rx", "none"}

OrdersTable ==
    txt.public \o <<".">> \o txt.orders

RefsDoc(owner, target, pair_kind, delete_rule, update_rule) ==
    LET L(k) == IF owner = "orders" THEN Uuid("c", k) ELSE Uuid("c", 2 + k)
        R(k) == IF target = "orders" THEN Uuid("c", k) ELSE Uuid("c", 2 + k)
        pairs == CASE pair_kind = "L2R1" -> << <<L(2), R(1)>> >>
                   [] pair_kind = "L1R1" -> << <<L(1), R(1)>> >>
                   [] pair_kind = "L2R2" -> << <<L(2), R(2)>> >>
                   [] pair_kind = "L1R1_L2R2" -> << <<L(1), R(1)>>, <<L(2), R(2)>> >>
                   [] pair_kind = "L1R1_L2R1" -> << <<L(1), R(1)>>, <<L(2), R(1)>> >>
                   [] pair_kind = "L2Rx" -> << <<L(2), Uuid("c", 9)>> >>
                   [] pair_kind = "L2R1_L2Rx" -> << <<L(2), R(1)>>, <<L(2), Uuid("c", 9)>> >>
                   [] OTHER -> <<>>
        ref_field == CASE target = "users" -> << <<"referenced-table", Uuid("t", 2)>> >>
                       [] target = "orders" -> << <<"referenced-table", Uuid("t", 1)>> >>
                       [] target = "inline" ->
                            << <<"referenced-table",
                                 JDict(<< <<"name", JStr(txt.users)>>,
                                          <<"full-name", JStr(UsersTable)>> >>)>> >>
                       [] target = "dangling" -> << <<"referenced-table", Uuid("t", 9)>> >>
                       [] target = "missing" -> <<>>
                       [] target = "null" -> << <<"referenced-table", JNull>> >>
        fks(t) == IF owner = t THEN <<Uuid("f", 1)>> ELSE <<>>
        key_col(k, table) == Column([PlainCol(Uuid("c", k), table, txt.id, 1)
                                        EXCEPT !.nullable = FALSE, !.pk = TRUE],
                                    Uuid("d", 1))
    IN Document(TRUE, TRUE,
                << Table(Uuid("t", 1), txt.orders, OrdersTable, JNull, TRUE,
                         <<Uuid("c", 1), Uuid("c", 2)>>, Uuid("p", 1), <<>>, fks("orders")),
                   Table(Uuid("t", 2), txt.users, UsersTable, JNull, TRUE,
                         <<Uuid("c", 3), Uuid("c", 4)>>, Uuid("p", 2), <<>>, fks("users")) >>,
                << key_col(1, OrdersTable),
                   Column(PlainCol(Uuid("c", 2), OrdersTable, txt.user_id, 2), Uuid("d", 1)),
                   key_col(3, UsersTable),
                   Column(PlainCol(Uuid("c", 4), UsersTable, txt.parent_id, 2), Uuid("d", 1)) >>,
                BaseTypes
                \o << KeyObject(Uuid("p", 1), txt.PrimaryKeyClass, TRUE, TRUE, <<Uuid("c", 1)>>),
                      KeyObject(Uuid("p", 2), txt.PrimaryKeyClass, TRUE, TRUE, <<Uuid("c", 3)>>),
                      ForeignKey(Uuid("f", 1), ref_field, pairs, delete_rule, update_rule) >>)

RefsDocs ==
    {RefsDoc(owner, target, pair_kind, delete_rule, update_rule) :
        owner \in Owners, target \in Targets, pair_kind \in PairKinds,
        delete_rule \in {<<>>, txt.cascade}, update_rule \in {<<>>, txt.restrict}}

(***************************************************************************)
(* Family "gaps": one table public.items (t1) with the columns a (c1,      *)
(* primary key p1) and b (c2, unique index x1) and the foreign key f1      *)
(* b -> a into the table itself, and one identifier that no object has:    *)
(*   table        an entry t9 of the catalog's table list                  *)
(*   column       an entry c9 of the table's column list                   *)
(*   pk           the table's primary-key field is p9                      *)
(*   index        an entry x9 of the table's table-constraints             *)
(*   index_column an entry c9 of the index's column list                   *)
(*   foreign_key  an entry f9 of the table's foreign-keys                  *)
(*   ref_table    the foreign key's referenced-table is t9                 *)
(*   endpoint     a second column reference b -> c9                        *)
(*   none         no gap                                                   *)
(***************************************************************************)
GapKinds ==
    {"none", "table", "column", "pk", "index", "index_column", "foreign_key", "ref_table",
     "endpoint"}

GapsDoc(gap) ==
    LET g(kind, id) == IF gap = kind THEN <<id>> ELSE <<>>
        col(k, name, pk, unique) ==
            Column([PlainCol(Uuid("c", k), ItemsTable, name, k)
                       EXCEPT !.pk = pk, !.nullable = ~pk, !.unique = unique],
                   Uuid("d", 1))
        table == Table(Uuid("t", 1), txt.items, ItemsTable, JNull, TRUE,
                       <<Uuid("c", 1)>> \o g("column", Uuid("c", 9)) \o <<Uuid("c", 2)>>,
                       IF gap = "pk" THEN Uuid("p", 9) ELSE Uuid("p", 1),
                       g("index", Uuid("x", 9)) \o <<Uuid("x", 1)>>,
                       g("foreign_key", Uuid("f", 9)) \o <<Uuid("f", 1)>>)
        fk == ForeignKey(Uuid("f", 1),
                         << <<"referenced-table",
                              IF gap = "ref_table" THEN Uuid("t", 9) ELSE Uuid("t", 1)>> >>,
                         g("endpoint", <<Uuid("c", 2), Uuid("c", 9)>>)
                         \o << <<Uuid("c", 2), Uuid("c", 1)>> >>,
                         <<>>, <<>>)
    IN JDict(<< <<"all-table-columns",
                  Tagged(<<col(1, txt.a, TRUE, FALSE), col(2, txt.b, FALSE, TRUE)>>)>>,
                <<"definitions",
                  JList(BaseTypes
                        \o << KeyObject(Uuid("p", 1), txt.PrimaryKeyClass, TRUE, TRUE,
                                        <<Uuid("c", 1)>>),
                              KeyObject(Uuid("x", 1), txt.IndexClass, TRUE, TRUE,
                                        g("index_column", Uuid("c", 9)) \o <<Uuid("c", 2)>>),
                              fk, table >>)>>,
                <<"catalog",
                  JDict(<< <<"tables",
                             Tagged(g("table", Uuid("t", 9)) \o <<Uuid("t", 1)>>)>> >>)>> >>)

GapsDocs ==
    {GapsDoc(gap) : gap \in GapKinds}

(***************************************************************************)
(* Family "escapes": one table public.items with the remark `remark` and   *)
(* the one column a, which has the same remark and the default-value       *)
(* expression `default`.                                                   *)
(***************************************************************************)
EscapeRemarks ==
    {<<"x">>, <<"i", "t", "'", "s">>, <<"'", "'">>, <<" ", "x", " ">>}

EscapeDefaults ==
    {txt.now, txt.zero, <<"'", "x", "'">>, <<"a", "\n", "b">>}

EscapesDoc(remark, default) ==
    Document(TRUE, TRUE,
             << Table(Uuid("t", 1), txt.items, ItemsTable, JStr(remark), TRUE,
                      <<Uuid("c", 1)>>, JNull, <<>>, <<>>) >>,
             << Column([PlainCol(Uuid("c", 1), ItemsTable, txt.a, 1)
                           EXCEPT !.default = JStr(default), !.remarks = JStr(remark)],
                       Uuid("d", 1)) >>,
             BaseTypes)

EscapesDocs ==
    {EscapesDoc(remark, default) : remark \in EscapeRemarks, default \in EscapeDefaults}

(***************************************************************************)
(* Family "slots": one table public.items with the columns a and b and a   *)
(* key whose column identifiers c8, c9 no column has: a unique index       *)
(* ("index") or the primary key ("pk").                                    *)
(***************************************************************************)
SlotKinds ==
    {"index", "pk"}

SlotsDoc(kind) ==
    Document(TRUE, TRUE,
             << Table(Uuid("t", 1), txt.items, ItemsTable, JNull, TRUE,
                      <<Uuid("c", 1), Uuid("c", 2)>>,
                      IF kind = "pk" THEN Uuid("p", 1) ELSE JNull,
                      IF kind = "index" THEN <<Uuid("x", 1)>> ELSE <<>>, <<>>) >>,
             << Column(PlainCol(Uuid("c", 1), ItemsTable, txt.a, 1), Uuid("d", 1)),
                Column(PlainCol(Uuid("c", 2), ItemsTable, txt.b, 2), Uuid("d", 1)) >>,
             BaseTypes
             \o << KeyObject(IF kind = "pk" THEN Uuid("p", 1) ELSE Uuid("x", 1),
                             IF kind = "pk" THEN txt.PrimaryKeyClass ELSE txt.IndexClass,
                             TRUE, TRUE, <<Uuid("c", 8), Uuid("c", 9)>>) >>)

SlotsDocs ==
    {SlotsDoc(kind) : kind \in SlotKinds}

(***************************************************************************)
(* Documents whose top level is not the expected mapping.                  *)
(***************************************************************************)
TopLevelList ==
    JList(<<>>)

NoCatalog ==
    JDict(<< <<"all-table-columns", Tagged(<<>>)>> >>)

NoTableList ==
    JDict(<< <<"all-table-columns", Tagged(<<>>)>>, <<"catalog", JDict(<<>>)>> >>)

NullCatalog ==
    JDict(<< <<"all-table-columns", Tagged(<<>>)>>, <<"catalog", JNull>> >>)

MalformedDocs ==
    {InvalidJson, TopLevelList, NoCatalog, NoTableList, NullCatalog}

\* The contents an input file may have.
Docs ==
    UsersDocs \cup NamesDocs \cup KeysDocs \cup RefsDocs \cup GapsDocs \cup EscapesDocs \cup SlotsDocs
    \cup MalformedDocs

(***************************************************************************)
(* The two command-line tools as state machines.                           *)
(*   mode         which tool runs: "batch" (json_dbml_converter.py main)   *)
(*                or "single" (convert_schemacrawler_to_dbml.py main)      *)
(*   dir          the input folder: a sequence of files, each a name and   *)
(*                its content, in the order glob yields them; for the      *)
(*                single tool its one file is the input path               *)
(*   json_files   the files glob("*.json") matched                         *)
(*   pc, i        the position in main and in its loop over json_files     *)
(*   dbml_content the text the current conversion returned                 *)
(*   outfiles     the output folder: file name -> content                  *)
(*   log          what was printed: one record per message                 *)
(*   faults       whether the file system has failed an open or a write    *)
(***************************************************************************)
\* The name of the k-th input file: a.json, b.json, ...
file_name(k) ==
    <<Chr(96 + k)>> \o lit_json

\* Path.stem: the name without its last suffix
stem(name) ==
    IF \E n \in 2..Len(name) : name[n] = "."
    THEN SubSeq(name, 1, (CHOOSE n \in 2..Len(name) :
                              name[n] = "." /\ \A m \in (n + 1)..Len(name) : name[m] # ".") - 1)
    ELSE name

\* output_path = output_folder / (json_file.stem + ".dbml")
output_name(name) ==
    stem(name) \o lit_dbml

\* glob("*.json")
glob_json(files) ==
    LET matches(f) == EndsWith(f.name, lit_json)
    IN SelectSeq(files, matches)

\* An output folder without files.
NoFiles ==
    [name \in {} |-> <<>>]

\* A small valid export for the folders of several files.
SmallDoc ==
    UsersDoc(<<1>>, TRUE, "ref")

\* The contents of the files of a folder of several files.
BatchContents ==
    {SmallDoc, InvalidJson, TopLevelList}

\* The folders of up to n files with contents from S, named a.json, b.json, ...
Folders(n, S) ==
    UNION {[1..k -> S] : k \in 0..n}

Named(contents) ==
    [k \in 1..Len(contents) |-> [name |-> file_name(k), content |-> contents[k]]]

\* A file glob("*.json") does not match.
OtherFile ==
    [name |-> txt.notes_txt, content |-> InvalidJson]

Start ==
    /\ json_files = <<>>
    /\ pc = "start"
    /\ i = 0
    /\ dbml_content = <<>>
    /\ outfiles = NoFiles
    /\ log = <<>>
    /\ faults = FALSE
    /\ arg = JNull
    /\ ret = <<>>
    /\ built = EmptyMap
    /\ pending = <<>>
    /\ lookups = <<>>

\* One input file with any of the documents, given to either tool.
Init ==
    /\ mode \in {"batch", "single"}
    /\ dir \in {Named(<<d>>) : d \in Docs}
    /\ Start

\* A folder of several files, with or without a file that is no .json file,
\* given to the batch tool.
InitBatch ==
    /\ mode = "batch"
    /\ dir \in {Named(c) : c \in Folders(MaxFiles, BatchContents)}
               \cup {<<OtherFile>> \o Named(c) : c \in Folders(1, BatchContents)}
    /\ Start

Message(kind, name) ==
    [kind |-> kind, file |-> name]

\* json_dbml_converter.py main: json_files = list(input_folder.glob("*.json")),
\* exit when there is none
Glob ==
    /\ mode = "batch"
    /\ pc = "start"
    /\ json_files' = glob_json(dir)
    /\ IF glob_json(dir) = <<>>
       THEN /\ log' = Append(log, Message("no_files", <<>>))
            /\ pc' = "exit"
            /\ i' = i
       ELSE /\ log' = Append(log, Message("converting", <<>>))
            /\ pc' = "loop"
            /\ i' = 1
    /\ UNCHANGED <<mode, dir, dbml_content, outfiles, faults, arg, ret,
                   built, pending, lookups>>

\* A faulty loop body: the exception of convert_to_dbml is not caught and
\* ends the program.
ConvertFile_uncaught ==
    /\ mode = "batch"
    /\ pc = "loop"
    /\ i <= Len(json_files)
    /\ LET r == convert_to_dbml(json_files[i].content)
       IN IF r.raised
          THEN /\ pc' = "crashed"
               /\ UNCHANGED <<log, i, dbml_content>>
          ELSE /\ dbml_content' = r.value
               /\ pc' = "open"
               /\ UNCHANGED <<log, i>>
    /\ UNCHANGED <<mode, dir, json_files, outfiles, faults, arg, ret,
                   built, pending, lookups>>

\* the loop body up to the return of convert_to_dbml: an exception is caught
\* by `except Exception`, printed, and the loop goes on
ConvertFile ==
    /\ mode = "batch"
    /\ pc = "loop"
    /\ i <= Len(json_files)
    /\ LET r == convert_to_dbml(json_files[i].content)
       IN IF r.raised
          THEN /\ log' = Append(log, Message("failed", json_files[i].name))
               /\ i' = i + 1
               /\ UNCHANGED <<pc, dbml_content>>
          ELSE /\ dbml_content' = r.value
               /\ pc' = "open"
               /\ UNCHANGED <<log, i>>
    /\ UNCHANGED <<mode, dir, json_files, outfiles, faults, arg, ret,
                   built, pending, lookups>>

\* open(output_path, "w"): creates or truncates the file, or raises OSError
OpenOutput ==
    /\ mode = "batch"
    /\ pc = "open"
    /\ \/ /\ outfiles' = (output_name(json_files[i].name) :> <<>>) @@ outfiles
          /\ pc' = "write"
          /\ UNCHANGED <<log, i, faults>>
       \/ /\ ~faults
          /\ faults' = TRUE
          /\ log' = Append(log, Message("failed", json_files[i].name))
          /\ i' = i + 1
          /\ pc' = "loop"
          /\ UNCHANGED outfiles
    /\ UNCHANGED <<mode, dir, json_files, dbml_content, arg, ret,
                   built, pending, lookups>>

\* f.write(dbml_content) and the close of the with block: the whole text is
\* written, or OSError is raised after none or a part of it reached the file
WriteOutput ==
    /\ mode = "batch"
    /\ pc = "write"
    /\ \/ /\ outfiles' = [outfiles EXCEPT ![output_name(json_files[i].name)] = dbml_content]
          /\ log' = Append(log, Message("ok", json_files[i].name))
          /\ UNCHANGED faults
       \/ /\ ~faults
          /\ faults' = TRUE
          /\ \E n \in {0, Len(dbml_content) \div 2} :
                outfiles' = [outfiles EXCEPT ![output_name(json_files[i].name)] =
                                                SubSeq(dbml_content, 1, n)]
          /\ log' = Append(log, Message("failed", json_files[i].name))
    /\ i' = i + 1
    /\ pc' = "loop"
    /\ UNCHANGED <<mode, dir, json_files, dbml_content, arg, ret,
                   built, pending, lookups>>

\* after the loop: print the completion message
Finish ==
    /\ mode = "batch"
    /\ pc = "loop"
    /\ i > Len(json_files)
    /\ log' = Append(log, Message("completed", <<>>))
    /\ pc' = "done"
    /\ UNCHANGED <<mode, dir, json_files, i, dbml_content, outfiles, faults, arg, ret,
                   built, pending, lookups>>

\* convert_schemacrawler_to_dbml.py main: data = load_json(in_path);
\* dbml = to_dbml(data).  No exception is caught: the tool ends with a traceback.
SingleConvert ==
    /\ mode = "single"
    /\ pc = "start"
    /\ LET loaded == load_json(dir[1].content)
       IN IF loaded.raised \/ to_dbml(loaded.value).raised
          THEN /\ pc' = "crashed"
               /\ UNCHANGED dbml_content
          ELSE /\ dbml_content' = to_dbml(loaded.value).value
               /\ pc' = "write"
    /\ UNCHANGED <<mode, dir, json_files, i, outfiles, log, faults, arg, ret,
                   built, pending, lookups>>

\* out_path.write_text(dbml): open, write, close; then the success message
SingleWrite ==
    /\ mode = "single"
    /\ pc = "write"
    /\ \/ /\ outfiles' = (txt.out_dbml :> dbml_content) @@ outfiles
          /\ log' = Append(log, Message("ok", dir[1].name))
          /\ pc' = "done"
          /\ UNCHANGED faults
       \/ /\ faults' = TRUE
          /\ outfiles' = outfiles
          /\ pc' = "crashed"
          /\ UNCHANGED log
       \/ /\ faults' = TRUE
          /\ \E n \in {0, Len(dbml_content) \div 2} :
                outfiles' = (txt.out_dbml :> SubSeq(dbml_content, 1, n)) @@ outfiles
          /\ pc' = "crashed"
          /\ UNCHANGED log
    /\ UNCHANGED <<mode, dir, json_files, i, dbml_content, arg, ret,
                   built, pending, lookups>>

BatchNext ==
    \/ Glob
    \/ ConvertFile
    \/ OpenOutput
    \/ WriteOutput
    \/ Finish

Next ==
    \/ BatchNext
    \/ SingleConvert
    \/ SingleWrite

\* Either tool on one input file.
Spec ==
    Init /\ [][Next]_vars

\* The batch tool on a folder of several files.
SpecBatch ==
    InitBatch /\ [][BatchNext]_vars

(***************************************************************************)
(* The helper functions called on their own, on nodes and trees of every   *)
(* shape.  mode names the function, arg is its argument and ret the        *)
(* sequence of the values returned so far.                                 *)
(***************************************************************************)
\* An entry of a collection.
Entry(k) ==
    JDict(<< <<"@uuid", Uuid("e", k)>> >>)

\* Lists of one, two and three elements: the first a marker string, another
\* string, a number or a list; the second any kind of payload.
UnwrapFirsts ==
    {JStr(txt.ArrayList), JStr(lit_java_util), JStr(txt.users), JInt(1), JList(<<>>)}

UnwrapPayloads ==
    {JNull, JStr(txt.users), JDict(<<>>), JList(<<>>), JList(<<Entry(1)>>),
     JList(<<Entry(1), Entry(2)>>), Tagged(<<Entry(1)>>), Tagged(<<>>)}

UnwrapNodes ==
    {JNull, JStr(txt.ArrayList), JInt(0), JBool(TRUE), JDict(<<>>), JList(<<>>),
     JList(<<Entry(1)>>), JList(<<Entry(1), Entry(2)>>),
     JList(<<Entry(1), Entry(2), Entry(3)>>)}
    \cup {JList(<<first>>) : first \in UnwrapFirsts}
    \cup {JList(<<first, payload>>) : first \in UnwrapFirsts, payload \in UnwrapPayloads}
    \cup {JList(<<first, payload, Entry(3)>>) :
             first \in UnwrapFirsts, payload \in UnwrapPayloads}

\* The values of an identifier field: well-formed, absent, null, empty, a
\* number, a boolean, a list, a mapping.
Absent ==
    [t |-> "absent"]

IdValues ==
    {Uuid("u", 1), Absent, JNull, JStr(<<>>), JInt(5), JInt(0), JBool(TRUE), JBool(FALSE),
     JList(<<>>), JList(<<Uuid("u", 1)>>), JDict(<<>>), JDict(<< <<"a", JInt(1)>> >>)}

\* A mapping with the identifier field uid, and a mapping with a well-formed one.
IdNode(uid) ==
    JDict((IF uid = Absent THEN <<>> ELSE << <<"@uuid", uid>> >>)
          \o << <<"name", JStr(txt.users)>> >>)

GoodNode ==
    JDict(<< <<"@uuid", Uuid("u", 2)>>, <<"name", JStr(txt.orders)>> >>)

\* Trees with the two mappings at the top, in a list, in a tagged container
\* and deep inside lists and mappings.
IdPlaces ==
    {"top", "list", "tagged", "deep"}

IdTree(uid, place) ==
    CASE place = "top" ->
            JDict(IdNode(uid).kv \o << <<"child", GoodNode>> >>)
      [] place = "list" ->
            JDict(<< <<"items", JList(<<GoodNode, IdNode(uid)>>)>> >>)
      [] place = "tagged" ->
            Tagged(<<IdNode(uid), GoodNode>>)
      [] OTHER ->
            JDict(<< <<"a", JDict(<< <<"b", JList(<<JList(<<IdNode(uid)>>), JInt(1)>>)>> >>)>>,
                     <<"c", JList(<<JNull, GoodNode>>)>> >>)

IdTrees ==
    {IdTree(uid, place) : uid \in IdValues, place \in IdPlaces}

\* The name fields of a data type object, each with a value of its own.
TypeFields ==
    <<"name", "database-specific-type-name", "local-type-name", "standard-type-name",
      "full-name">>

TypeFieldValue ==
    <<JStr(<<"n">>), JStr(<<"d", "s">>), JStr(<<"l", "t">>), JStr(<<"s", "t">>),
      JStr(<<"f", "n">>)>>

\* The data type object with identifier d1 that has the fields numbered in
\* present, those numbered in empty with the empty string as value.
RECURSIVE TypeFieldsFrom(_, _, _)
TypeFieldsFrom(n, present, empty) ==
    IF n > Len(TypeFields) THEN <<>>
    ELSE (IF n \in present
          THEN << <<TypeFields[n], IF n \in empty THEN JStr(<<>>) ELSE TypeFieldValue[n]>> >>
          ELSE <<>>)
         \o TypeFieldsFrom(n + 1, present, empty)

TypeObject(present, empty) ==
    JDict(<< <<"@uuid", Uuid("d", 1)>> >> \o TypeFieldsFrom(1, present, empty))

TypeObjects ==
    {TypeObject(present, {}) : present \in SUBSET (1..Len(TypeFields))}
    \cup {TypeObject({2, 3, 4, 5}, {2}), TypeObject({2, 3, 4, 5}, {2, 3}),
          TypeObject({1, 2, 5}, {1, 2}), TypeObject({2, 3, 4, 5}, {2, 3, 4, 5})}

\* How a column refers to its data type: the object inline, its identifier,
\* an identifier no object has, or nothing.
TypeRefs ==
    {"inline", "id", "dangling", "null"}

TypeRef(type, how) ==
    CASE how = "inline" -> type
      [] how = "id" -> Get(type, "@uuid")
      [] how = "dangling" -> Uuid("d", 9)
      [] OTHER -> JNull

\* A column with its data type under the field each tool reads, in a
\* document that holds the data type object.
TypedColumn(type, how) ==
    JDict(<< <<"@uuid", Uuid("c", 1)>>,
             <<"column-data-type", TypeRef(type, how)>>,
             <<"type", TypeRef(type, how)>>,
             <<"types", JList(IF how = "inline" THEN <<>> ELSE <<type>>)>> >>)

TypedColumns ==
    {TypedColumn(type, how) : type \in TypeObjects, how \in TypeRefs}

\* How often unwrap is applied in a row.
MaxUnwraps == 2

InitCalls ==
    /\ \/ mode \in {"unwrap", "cols_block"} /\ arg \in UnwrapNodes
       \/ mode \in {"collect_uuid_map", "index_by_uuid"} /\ arg \in IdTrees
       \/ mode \in {"resolve_datatype", "resolve_db_type"} /\ arg \in TypedColumns
    /\ dir = <<>>
    /\ json_files = <<>>
    /\ pc = "call"
    /\ i = 0
    /\ dbml_content = <<>>
    /\ outfiles = NoFiles
    /\ log = <<>>
    /\ faults = FALSE
    /\ ret = <<>>
    /\ built = EmptyMap
    /\ pending = <<>>
    /\ lookups = <<>>

\* unwrap(arg), then unwrap of what it returned
Unwrap ==
    /\ mode = "unwrap"
    /\ Len(ret) < MaxUnwraps
    /\ ret' = Append(ret, unwrap(IF ret = <<>> THEN arg ELSE ret[Len(ret)]))
    /\ UNCHANGED <<mode, dir, json_files, pc, i, dbml_content, outfiles, log, faults, arg,
                   built, pending, lookups>>

\* to_dbml on a document whose all-table-columns field is arg: the columns
\* it takes from the field
ColumnsBlock ==
    /\ mode = "cols_block"
    /\ ret = <<>>
    /\ ret' = <<to_dbml_cols_payload(JDict(<< <<"all-table-columns", arg>> >>))>>
    /\ UNCHANGED <<mode, dir, json_files, pc, i, dbml_content, outfiles, log, faults, arg,
                   built, pending, lookups>>

\* uuid_map = {}; collect_uuid_map(arg, uuid_map): the map, or the TypeError
\* of `uuid_map[uid] = obj`
CollectUuidMap ==
    /\ mode = "collect_uuid_map"
    /\ ret = <<>>
    /\ ret' = <<IF collect_uuid_map_raises(arg) THEN Raised
                ELSE Returned(collect_uuid_map(arg, EmptyMap))>>
    /\ UNCHANGED <<mode, dir, json_files, pc, i, dbml_content, outfiles, log, faults, arg,
                   built, pending, lookups>>

\* index_by_uuid(arg)
IndexByUuid ==
    /\ mode = "index_by_uuid"
    /\ ret = <<>>
    /\ ret' = <<Returned(index_by_uuid(arg))>>
    /\ UNCHANGED <<mode, dir, json_files, pc, i, dbml_content, outfiles, log, faults, arg,
                   built, pending, lookups>>

\* resolve_datatype(c.get('column-data-type'), uuid_map), uuid_map collected
\* from the document
ResolveDatatype ==
    /\ mode = "resolve_datatype"
    /\ ret = <<>>
    /\ ret' = <<Returned(resolve_datatype(Get(arg, "column-data-type"),
                                          collect_uuid_map(arg, EmptyMap)))>>
    /\ UNCHANGED <<mode, dir, json_files, pc, i, dbml_content, outfiles, log, faults, arg,
                   built, pending, lookups>>

\* resolve_db_type(col_obj, uuid_index), uuid_index = index_by_uuid(document)
ResolveDbType ==
    /\ mode = "resolve_db_type"
    /\ ret = <<>>
    /\ ret' = <<IF resolve_db_type_raises(arg) THEN Raised
                ELSE Returned(JStr(resolve_db_type(arg, index_by_uuid(arg))))>>
    /\ UNCHANGED <<mode, dir, json_files, pc, i, dbml_content, outfiles, log, faults, arg,
                   built, pending, lookups>>

CallsNext ==
    \/ Unwrap
    \/ ColumnsBlock
    \/ CollectUuidMap
    \/ IndexByUuid
    \/ ResolveDatatype
    \/ ResolveDbType

\* The helper functions, each on its own.
SpecCalls ==
    InitCalls /\ [][CallsNext]_vars


(***************************************************************************)
(* One conversion step by step: the pass that builds the identifier index  *)
(* (collect_uuid_map, index_by_uuid.walk), one call of the walk per step,  *)
(* and after it the lookups in the index, in the order the conversion      *)
(* makes them.                                                             *)
(*   arg      the decoded document                                         *)
(*   built    the index as written so far (uuid_map, index)                *)
(*   pending  the nodes the walk has still to be called on, next first     *)
(*   lookups  the lookups made so far: the key and whether it was found    *)
(*   i        the position in the sequence of lookups                      *)
(***************************************************************************)
\* The keys the loop body of `for t in tables` looks up in uuid_map: the
\* primary key (line 80), the data types of the columns (line 34), the
\* table-constraints (line 112), the primary key again (line 115), the
\* foreign keys (line 146) and their referenced tables (line 148).
table_lookup_keys(t, uuid_map, col_by_id) ==
    LET pk_id == Get(t, "primary-key")
        pk_keys == IF Truthy(pk_id) THEN <<pk_id>> ELSE <<>>
        cols == table_cols(t, col_by_id)
        is_str(x) == x.t = "str"
        type_keys == SelectSeq([n \in 1..Len(cols) |-> Get(cols[n], "column-data-type")],
                               is_str)
        fks == listing(t, "foreign-keys")
        fk_keys(fk_entry) ==
            LET fk == fk_of(fk_entry, uuid_map)
            IN (IF fk_entry.t = "dict" THEN <<>> ELSE <<fk_entry>>)
               \o (IF Truthy(fk) /\ fk.t = "dict" /\ Get(fk, "referenced-table").t = "str"
                   THEN <<Get(fk, "referenced-table")>> ELSE <<>>)
    IN pk_keys \o type_keys \o listing(t, "table-constraints") \o pk_keys
       \o Flatten([n \in 1..Len(fks) |-> fk_keys(fks[n])])

\* The keys convert_to_dbml looks up in uuid_map, in order: the entries of
\* the table list (line 63), then table by table.
convert_to_dbml_lookup_keys(data, uuid_map) ==
    LET catalog == GetD(data, "catalog", JDict(<<>>))
        is_id(e) == e.t # "dict"
        col_by_id == col_by_id_of(listing(data, "all-table-columns"))
        tables == tables_of(data, uuid_map)
    IN SelectSeq(listing(catalog, "tables"), is_id)
       \o Flatten([n \in 1..Len(tables) |-> table_lookup_keys(tables[n], uuid_map, col_by_id)])

\* The keys to_dbml looks up in uuid_index: the type of every column
\* (resolve_db_type, line 50).
to_dbml_lookup_keys(input_json) ==
    LET columns == to_dbml_columns(input_json)
        has_type(col) == Truthy(Get(col, "type"))
        typed == SelectSeq(columns, has_type)
    IN [n \in 1..Len(typed) |-> Get(typed[n], "type")]

lookup_keys(tool, data, uuid_map) ==
    IF tool = "convert_to_dbml" THEN convert_to_dbml_lookup_keys(data, uuid_map)
    ELSE to_dbml_lookup_keys(data)

\* The documents converted step by step.
PassDocs ==
    {UsersDoc(<<1, 2>>, TRUE, "ref"), UsersDoc(<<2, 1>>, FALSE, "dangling"),
     RefsDoc("orders", "users", "L2R1", txt.cascade, <<>>), GapsDoc("none"),
     GapsDoc("table"), KeysDoc("composite", "u_ab", TRUE)}

InitPasses ==
    /\ mode \in {"convert_to_dbml", "to_dbml"}
    /\ arg \in PassDocs
    /\ pc = "index"
    /\ built = EmptyMap
    /\ pending = <<arg>>
    /\ lookups = <<>>
    /\ i = 1
    /\ dir = <<>>
    /\ json_files = <<>>
    /\ dbml_content = <<>>
    /\ outfiles = NoFiles
    /\ log = <<>>
    /\ faults = FALSE
    /\ ret = <<>>

\* One call collect_uuid_map(obj, uuid_map): a mapping with a truthy
\* identifier is written to the index, and the calls on its values or items
\* come next.
CollectStep ==
    /\ mode = "convert_to_dbml"
    /\ pc = "index"
    /\ pending # <<>>
    /\ LET obj == Head(pending)
           uid == Get(obj, "@uuid")
       IN IF obj.t = "dict"
          THEN /\ built' = IF Truthy(uid) THEN (uid :> obj) @@ built ELSE built
               /\ pending' = Values(obj) \o Tail(pending)
          ELSE /\ built' = built
               /\ pending' = (IF obj.t = "list" THEN obj.items ELSE <<>>) \o Tail(pending)
    /\ UNCHANGED <<mode, dir, json_files, pc, i, dbml_content, outfiles, log, faults, arg, ret,
                   lookups>>

\* One call walk(o) of index_by_uuid: a mapping with a string identifier is
\* written to the index.
WalkStep ==
    /\ mode = "to_dbml"
    /\ pc = "index"
    /\ pending # <<>>
    /\ LET o == Head(pending)
           uid == Get(o, "@uuid")
       IN IF o.t = "dict"
          THEN /\ built' = IF uid.t = "str" THEN (uid :> o) @@ built ELSE built
               /\ pending' = Values(o) \o Tail(pending)
          ELSE /\ built' = built
               /\ pending' = (IF o.t = "list" THEN o.items ELSE <<>>) \o Tail(pending)
    /\ UNCHANGED <<mode, dir, json_files, pc, i, dbml_content, outfiles, log, faults, arg, ret,
                   lookups>>

\* The outermost call of the walk returns: the conversion goes on after
\* collect_uuid_map(data, uuid_map) or index_by_uuid(input_json).
IndexReturn ==
    /\ pc = "index"
    /\ pending = <<>>
    /\ pc' = "resolve"
    /\ UNCHANGED <<mode, dir, json_files, i, dbml_content, outfiles, log, faults, arg, ret,
                   built, pending, lookups>>

\* A faulty conversion: a reference is looked up as soon as the walk has
\* started, while the index is still being written.
Lookup_interleaved ==
    /\ pc \in {"index", "resolve"}
    /\ i <= Len(lookup_keys(mode, arg, built))
    /\ LET key == lookup_keys(mode, arg, built)[i]
       IN lookups' = Append(lookups, [key |-> key, found |-> key \in DOMAIN built])
    /\ i' = i + 1
    /\ UNCHANGED <<mode, dir, json_files, pc, dbml_content, outfiles, log, faults, arg, ret,
                   built, pending>>

\* The next lookup of the conversion: uuid_map.get(key), `key in uuid_map`.
Lookup ==
    /\ pc = "resolve"
    /\ i <= Len(lookup_keys(mode, arg, built))
    /\ LET key == lookup_keys(mode, arg, built)[i]
       IN lookups' = Append(lookups, [key |-> key, found |-> key \in DOMAIN built])
    /\ i' = i + 1
    /\ UNCHANGED <<mode, dir, json_files, pc, dbml_content, outfiles, log, faults, arg, ret,
                   built, pending>>

\* The conversion returns its text.
ConversionReturn ==
    /\ pc = "resolve"
    /\ i > Len(lookup_keys(mode, arg, built))
    /\ pc' = "done"
    /\ ret' = <<IF mode = "convert_to_dbml" THEN convert_to_dbml(arg) ELSE to_dbml(arg)>>
    /\ UNCHANGED <<mode, dir, json_files, i, dbml_content, outfiles, log, faults, arg,
                   built, pending, lookups>>

PassesNext ==
    \/ CollectStep
    \/ WalkStep
    \/ IndexReturn
    \/ Lookup
    \/ ConversionReturn

\* One conversion of either tool, step by step.
SpecPasses ==
    InitPasses /\ [][PassesNext]_vars
(***************************************************************************)
(* Reading an input document and an output text, for the properties.      *)
(***************************************************************************)
\* The entries of a collection-valued field: the payload of a tagged
\* container, or the list itself.
Entries(node) ==
    IF node.t = "list" /\ Len(node.items) = 2 /\ node.items[1].t = "str"
       /\ node.items[2].t = "list"
    THEN node.items[2].items
    ELSE IF node.t = "list" THEN node.items
    ELSE <<>>

\* Every mapping of a document.
RECURSIVE Objects(_)
Objects(node) ==
    IF node.t = "dict"
    THEN {node} \cup UNION {Objects(node.kv[n][2]) : n \in 1..Len(node.kv)}
    ELSE IF node.t = "list"
    THEN UNION {Objects(node.items[n]) : n \in 1..Len(node.items)}
    ELSE {}

HasObject(doc, id) ==
    id.t = "str" /\ \E o \in Objects(doc) : Get(o, "@uuid") = id

ObjectById(doc, id) ==
    CHOOSE o \in Objects(doc) : Get(o, "@uuid") = id

\* The table objects the catalog lists, in order; an entry that names no
\* object is no table.
SrcTables(doc) ==
    LET listed(e) == e.t = "dict" \/ HasObject(doc, e)
        entries == SelectSeq(Entries(Get(Get(doc, "catalog"), "tables")), listed)
    IN [n \in 1..Len(entries) |->
           IF entries[n].t = "dict" THEN entries[n] ELSE ObjectById(doc, entries[n])]

SrcTableSet(doc) ==
    {SrcTables(doc)[n] : n \in 1..Len(SrcTables(doc))}

\* The column objects of the global column list.
SrcAllColumns(doc) ==
    LET cols == Entries(Get(doc, "all-table-columns"))
    IN {cols[n] : n \in 1..Len(cols)}

HasColumn(doc, id) ==
    id.t = "str" /\ \E c \in SrcAllColumns(doc) : Get(c, "@uuid") = id

ColumnById(doc, id) ==
    CHOOSE c \in SrcAllColumns(doc) : Get(c, "@uuid") = id

\* The columns a table owns.
SrcColumns(doc, t) ==
    {c \in SrcAllColumns(doc) : InList(Get(c, "@uuid"), Entries(Get(t, "columns")))}

SrcName(o) ==
    Get(o, "name").s

\* The foreign keys a table owns.
SrcForeignKeys(doc, t) ==
    LET entries == Entries(Get(t, "foreign-keys"))
    IN {IF entries[n].t = "dict" THEN entries[n] ELSE ObjectById(doc, entries[n]) :
           n \in {m \in 1..Len(entries) :
                     entries[m].t = "dict" \/ HasObject(doc, entries[m])}}

\* The table a foreign key references, or null when there is none to find.
SrcRefTable(doc, fk) ==
    LET field == Get(fk, "referenced-table")
    IN IF field.t = "dict" THEN field
       ELSE IF HasObject(doc, field) THEN ObjectById(doc, field)
       ELSE JNull

\* The (local, referenced) pairs of a foreign key whose columns both exist.
SrcPairs(doc, fk) ==
    LET refs == Entries(Get(fk, "column-references"))
    IN {<<Get(refs[n], "foreign-key-column"), Get(refs[n], "primary-key-column")>> :
           n \in {m \in 1..Len(refs) :
                     /\ HasColumn(doc, Get(refs[m], "foreign-key-column"))
                     /\ HasColumn(doc, Get(refs[m], "primary-key-column"))}}

\* A foreign key references the table that owns it.
SelfReferential(doc, t, fk) ==
    LET rt == SrcRefTable(doc, fk)
    IN rt.t = "dict" /\ Get(rt, "full-name") = Get(t, "full-name")

\* The name of a rule of a foreign key, empty when the rule is absent.
SrcRule(fk, k) ==
    IF Get(fk, k).t = "list" THEN Get(fk, k).items[2].s ELSE <<>>

\* The documents that are well-formed exports: a catalog with a table list,
\* every listed table present, every foreign key with a table or none.
WellFormedDocs ==
    UsersDocs \cup NamesDocs \cup KeysDocs
    \cup {RefsDoc(owner, target, pair_kind, delete_rule, update_rule) :
             owner \in Owners, target \in Targets \ {"null"}, pair_kind \in PairKinds,
             delete_rule \in {<<>>, txt.cascade}, update_rule \in {<<>>, txt.restrict}}

\* s stands in text at position p
Occurs(text, p, s) ==
    p >= 1 /\ p + Len(s) - 1 <= Len(text) /\ SubSeq(text, p, p + Len(s) - 1) = s

AtLineStart(text, p) ==
    p = 1 \/ text[p - 1] = "\n"

AtLineEnd(text, p) ==
    p > Len(text) \/ text[p] = "\n"

\* s is a whole line of text
HasLine(text, s) ==
    \E p \in 1..Len(text) :
        AtLineStart(text, p) /\ Occurs(text, p, s) /\ AtLineEnd(text, p + Len(s))

\* some line of text begins with s
HasLineStart(text, s) ==
    \E p \in 1..Len(text) : AtLineStart(text, p) /\ Occurs(text, p, s)

\* The positions where a line begins with s.
LineStarts(text, s) ==
    {p \in 1..Len(text) : AtLineStart(text, p) /\ Occurs(text, p, s)}

\* The positions where a `Table ` header begins.
HeaderStarts(text) ==
    LineStarts(text, <<"T", "a", "b", "l", "e", " ">>)

\* A name as written, without the quotes around it.
Unquote(s) ==
    IF Len(s) >= 2 /\ s[1] \in {Backtick, "\""} /\ s[Len(s)] = s[1]
    THEN SubSeq(s, 2, Len(s) - 1)
    ELSE s

\* The name of the header that begins at p: what stands between `Table ` and
\* the ` {` that ends the header.
HeaderName(text, p) ==
    LET ends == {q \in (p + 6)..Len(text) :
                    Occurs(text, q, <<" ", "{">>) /\ AtLineEnd(text, q + 2)}
        q == CHOOSE e \in ends : \A other \in ends : e <= other
    IN Unquote(SubSeq(text, p + 6, q - 1))

\* The block of the header that begins at p: the text up to the next header
\* or the first Ref statement.
BlockAt(text, p) ==
    LET later == {q \in HeaderStarts(text) \cup LineStarts(text, <<"R", "e", "f", ":", " ">>) : q > p}
        stop == IF later = {} THEN Len(text) + 1
                ELSE CHOOSE q \in later : \A other \in later : q <= other
    IN SubSeq(text, p, stop - 1)

\* The block of the table named name (the first, if several have the name).
BlockOf(text, name) ==
    LET starts == {p \in HeaderStarts(text) : HeaderName(text, p) = name}
    IN BlockAt(text, CHOOSE p \in starts : \A other \in starts : p <= other)

Quoted(name) ==
    {<<Backtick>> \o name \o <<Backtick>>, <<"\"">> \o name \o <<"\"">>}

\* The ways a name may be written: bare, or between quotes.
Written(name) ==
    {name} \cup Quoted(name)

\* The positions in a block where the column line of the column `name` begins.
ColumnLineStarts(block, name) ==
    UNION {LineStarts(block, <<" ", " ">> \o w \o <<" ">>) : w \in Written(name)}

\* The column names of an indexes entry, as written for bare names.
ColumnList(names) ==
    Join(<<",", " ">>, names)

\* The block has an indexes entry for the columns, with the marker or any.
HasIndexEntry(block, columns, marker) ==
    \E p \in 1..Len(block) :
        /\ Occurs(block, p, <<"(">> \o columns \o <<")", " ", "[">> \o marker)
        /\ \E q \in 1..p : AtLineStart(block, q) /\ \A n \in q..(p - 1) : block[n] = " "

\* What the batch tool reported for its k-th file, and the file it wrote.
MessagesAbout(kind, k) ==
    {n \in 1..Len(log) : log[n] = Message(kind, json_files[k].name)}

Reported(kind, k) ==
    MessagesAbout(kind, k) # {}

OutputText(k) ==
    outfiles[output_name(json_files[k].name)]

\* The batch tool has converted its k-th file and written the output whole.
Converted(k) ==
    mode = "batch" /\ k \in 1..Len(json_files) /\ Reported("ok", k)

\* The batch tool has ended and the file system never failed it.
BatchEnded ==
    mode = "batch" /\ pc = "done" /\ ~faults

\* The single-file tool has written its output whole.
SingleDone ==
    mode = "single" /\ pc = "done"

SingleText ==
    outfiles[txt.out_dbml]

(***************************************************************************)
(* C1: for every well-formed input, convert_to_dbml emits exactly one      *)
(* `Table` block per entry of the catalog's table list, and the set of     *)
(* emitted table names equals the set of source table names.               *)
(***************************************************************************)
C1_TablesMatch(doc, text) ==
    LET tables == SrcTables(doc)
    IN /\ Cardinality(HeaderStarts(text)) = Len(tables)
       /\ {HeaderName(text, p) : p \in HeaderStarts(text)}
          = {SrcName(tables[n]) : n \in 1..Len(tables)}

\* C1: every well-formed file is converted, with one block per listed table
\* and the same set of names.
C1_OneBlockPerTable ==
    \A k \in 1..Len(json_files) :
        json_files[k].content \in WellFormedDocs =>
            /\ BatchEnded => Converted(k)
            /\ Converted(k) => C1_TablesMatch(json_files[k].content, OutputText(k))

\* a file with two tables, listed by identifier, was converted
C1_Witness ==
    /\ Converted(1)
    /\ dir[1].content \in RefsDocs
    /\ Cardinality(HeaderStarts(OutputText(1))) = 2

(***************************************************************************)
(* C2: within each emitted table block the column lines stand in strictly  *)
(* ascending ordinal-position order, whatever the order of the table's     *)
(* column-identifier list in the source.                                   *)
(***************************************************************************)
C2_Ascending(doc, text) ==
    \A t \in SrcTableSet(doc) :
        LET block == BlockOf(text, SrcName(t))
        IN \A c \in SrcColumns(doc, t) :
              /\ Cardinality(ColumnLineStarts(block, SrcName(c))) = 1
              /\ \A d \in SrcColumns(doc, t) :
                    Get(c, "ordinal-position").n < Get(d, "ordinal-position").n =>
                        \A p \in ColumnLineStarts(block, SrcName(c)) :
                            \A q \in ColumnLineStarts(block, SrcName(d)) : p < q

\* C2: in every converted file the column lines of each table ascend by
\* ordinal position.
C2_ColumnOrder ==
    \A k \in 1..Len(json_files) :
        Converted(k) /\ json_files[k].content \in WellFormedDocs =>
            C2_Ascending(json_files[k].content, OutputText(k))

\* a table whose source lists its columns in descending ordinal order
C2_Witness ==
    /\ Converted(1)
    /\ \E wrap \in BOOLEAN : dir[1].content = UsersDoc(<<3, 2, 1>>, wrap, "ref")

(***************************************************************************)
(* C3: for every table, a single-column primary key never produces an      *)
(* entry in the table's indexes block for that same column combination,    *)
(* and a composite primary key (two or more columns) always produces a     *)
(* [pk] entry in the indexes block.                                        *)
(***************************************************************************)
\* The names of the columns of the primary key of t, when it has one and all
\* its columns exist; the empty sequence otherwise.
SrcPrimaryKey(doc, t) ==
    LET pk_id == Get(t, "primary-key")
        ids == IF HasObject(doc, pk_id)
               THEN Entries(Get(ObjectById(doc, pk_id), "columns"))
               ELSE <<>>
    IN IF \A n \in 1..Len(ids) : HasColumn(doc, ids[n])
       THEN [n \in 1..Len(ids) |-> SrcName(ColumnById(doc, ids[n]))]
       ELSE <<>>

C3_SinglePk(doc, text) ==
    \A t \in SrcTableSet(doc) :
        Len(SrcPrimaryKey(doc, t)) = 1 =>
            ~HasIndexEntry(BlockOf(text, SrcName(t)), ColumnList(SrcPrimaryKey(doc, t)), <<>>)

C3_CompositePk(doc, text) ==
    \A t \in SrcTableSet(doc) :
        Len(SrcPrimaryKey(doc, t)) >= 2 =>
            HasIndexEntry(BlockOf(text, SrcName(t)), ColumnList(SrcPrimaryKey(doc, t)),
                          <<"p", "k", "]">>)

\* C3: no indexes entry for the column of a single-column primary key, and a
\* [pk] entry for every composite one.
C3_PrimaryKeyEntries ==
    \A k \in 1..Len(json_files) :
        Converted(k) /\ json_files[k].content \in WellFormedDocs =>
            /\ C3_SinglePk(json_files[k].content, OutputText(k))
            /\ C3_CompositePk(json_files[k].content, OutputText(k))

(***************************************************************************)
(* C4: a foreign key whose referenced table is its own table and whose     *)
(* every column-reference pair has the local column identical to the       *)
(* referenced column is never emitted as a Ref statement.                  *)
(***************************************************************************)
\* a Ref statement, up to its options
RefStatement(ref_table, ref_col, table, local_col) ==
    <<"R", "e", "f", ":", " ">> \o ref_table \o <<".">> \o ref_col \o <<" ", ">", " ">> \o table \o <<".">> \o local_col

\* every pair of the foreign key exists and is a column with itself
SelfIdentity(doc, t, fk) ==
    /\ SelfReferential(doc, t, fk)
    /\ SrcPairs(doc, fk) # {}
    /\ Cardinality(SrcPairs(doc, fk)) = Len(Entries(Get(fk, "column-references")))
    /\ \A pair \in SrcPairs(doc, fk) : pair[1] = pair[2]

C4_NoRef(doc, text) ==
    \A t \in SrcTableSet(doc) :
        \A fk \in SrcForeignKeys(doc, t) :
            SelfIdentity(doc, t, fk) =>
                \A pair \in SrcPairs(doc, fk) :
                    \A wt \in Written(SrcName(t)) :
                        \A wc \in Written(SrcName(ColumnById(doc, pair[1]))) :
                            ~HasLineStart(text, RefStatement(wt, wc, wt, wc))

\* C4: no Ref statement for a foreign key of a table to itself whose pairs
\* all pair a column with itself.
C4_NoSelfIdentityRef ==
    \A k \in 1..Len(json_files) :
        Converted(k) /\ json_files[k].content \in WellFormedDocs =>
            C4_NoRef(json_files[k].content, OutputText(k))

\* the users table with a foreign key (id, parent_id) -> (id, parent_id)
C4_Witness ==
    /\ Converted(1)
    /\ dir[1].content = RefsDoc("users", "users", "L1R1_L2R2", txt.cascade, <<>>)
    /\ \E t \in SrcTableSet(dir[1].content) :
          \E fk \in SrcForeignKeys(dir[1].content, t) : SelfIdentity(dir[1].content, t, fk)

(***************************************************************************)
(* C5: a table or column name with a character outside letters, digits     *)
(* and underscore, or not starting with a letter or underscore, is quoted  *)
(* in every place it appears in the output (table header, column line,     *)
(* index block, Ref statement); a name of letters, digits and underscore   *)
(* that starts with a letter or underscore is never quoted anywhere.       *)
(***************************************************************************)
PlainName(name) ==
    /\ name # <<>>
    /\ IsUpper(name[1]) \/ IsLower(name[1]) \/ name[1] = "_"
    /\ \A n \in 1..Len(name) :
          IsUpper(name[n]) \/ IsLower(name[n]) \/ IsDigit(name[n]) \/ name[n] = "_"

\* how the claim has a name written
AsClaimed(name) ==
    IF PlainName(name) THEN {name} ELSE Quoted(name)

\* the four places of the batch tool's output for the document NamesDoc(tn, cn)
C5_BatchPlaces(tn, cn, text) ==
    /\ \E w \in AsClaimed(tn) : HasLine(text, <<"T", "a", "b", "l", "e", " ">> \o w \o <<" ", "{">>)
    /\ \E w \in AsClaimed(cn) : HasLineStart(text, <<" ", " ">> \o w \o <<" ", "i", "n", "t", "e", "g", "e", "r">>)
    /\ \E w \in AsClaimed(cn) : HasIndexEntry(text, w, <<"u", "n", "i", "q", "u", "e", "]">>)
    /\ \E wt \in AsClaimed(tn) :
          \E wc \in AsClaimed(cn) :
              HasLine(text, RefStatement(wt, wc, wt, txt.parent))

\* the two places of the single-file tool's output: its table name is the
\* schema-qualified name
C5_SinglePlaces(tn, cn, text) ==
    /\ \E w \in AsClaimed(txt.public \o <<".">> \o tn) :
          HasLine(text, <<"T", "a", "b", "l", "e", " ">> \o w \o <<" ", "{">>)
    /\ \E w \in AsClaimed(cn) : HasLineStart(text, <<" ", " ">> \o w \o <<" ", "i", "n", "t", "e", "g", "e", "r">>)

C5_BatchQuoting ==
    \A tn \in Names :
        \A cn \in Names :
            Converted(1) /\ dir[1].content = NamesDoc(tn, cn) =>
                C5_BatchPlaces(tn, cn, OutputText(1))

C5_SingleQuoting ==
    \A tn \in Names :
        \A cn \in Names :
            SingleDone /\ dir[1].content = NamesDoc(tn, cn) =>
                C5_SinglePlaces(tn, cn, SingleText)

\* C5: both tools write every name quoted in every place when it is not a
\* plain name, and bare when it is.
C5_Quoting ==
    C5_BatchQuoting /\ C5_SingleQuoting

(***************************************************************************)
(* C6: in batch mode a file that fails to convert never aborts the batch:  *)
(* every other file of the directory is still attempted, each valid file   *)
(* yields exactly one output file and each failing file exactly one        *)
(* reported failure, wherever the failing file stands in the iteration.    *)
(***************************************************************************)
\* The files of the directory the batch is about.
JsonFileCount ==
    Cardinality({n \in 1..Len(dir) : EndsWith(dir[n].name, <<".", "j", "s", "o", "n">>)})

ValidFiles ==
    {k \in 1..Len(json_files) : json_files[k].content \in WellFormedDocs}

FailingFiles ==
    {k \in 1..Len(json_files) : json_files[k].content \notin WellFormedDocs}

OutputOf(k) ==
    SubSeq(json_files[k].name, 1, Len(json_files[k].name) - 5) \o <<".", "d", "b", "m", "l">>

\* C6: once the batch tool has stopped, every file was attempted once, every
\* failing file has one failure report and no output, every valid file its
\* output.
C6_BatchContinues ==
    (mode = "batch" /\ pc \notin {"start", "loop", "open", "write"}) =>
        /\ Len(json_files) = JsonFileCount
        /\ \A k \in 1..Len(json_files) :
              Cardinality(MessagesAbout("ok", k)) + Cardinality(MessagesAbout("failed", k)) = 1
        /\ \A k \in FailingFiles :
              /\ Cardinality(MessagesAbout("failed", k)) = 1
              /\ OutputOf(k) \notin DOMAIN outfiles
        /\ \A k \in ValidFiles :
              Reported("ok", k) =>
                  OutputOf(k) \in DOMAIN outfiles /\ outfiles[OutputOf(k)] # <<>>
        /\ Cardinality({k \in ValidFiles : Reported("failed", k)}) <= (IF faults THEN 1 ELSE 0)
        /\ ~faults => Cardinality(DOMAIN outfiles) = Cardinality(ValidFiles)

\* three valid files and a malformed one that is not the last: three outputs
\* and one reported failure
C6_Witness ==
    /\ BatchEnded
    /\ Len(json_files) = 4
    /\ Cardinality(ValidFiles) = 3
    /\ FailingFiles = {2}
    /\ Cardinality(DOMAIN outfiles) = 3
    /\ Cardinality({n \in 1..Len(log) : log[n].kind = "failed"}) = 1

(***************************************************************************)
(* C8: a column whose data-type reference is an identifier absent from     *)
(* the identifier index, or is null, resolves to the fallback type string  *)
(* (varchar in the batch tool, text in the single-file tool), and the      *)
(* file's conversion completes instead of aborting.                        *)
(***************************************************************************)
\* The documents whose email column has a type reference that does not resolve.
UnresolvedTypeDocs ==
    {UsersDoc(order, wrap, type_mode) :
        order \in {o \in UNION {Perms(1..n) : n \in 1..MaxCols} : InList(2, o)},
        wrap \in BOOLEAN,
        type_mode \in {"dangling", "null"}}

RuleOptions(fk) ==
    LET present == (IF SrcRule(fk, "delete-rule") # <<>>
                    THEN <<<<"d", "e", "l", "e", "t", "e", ":", " ">> \o SrcRule(fk, "delete-rule")>> ELSE <<>>)
                   \o (IF SrcRule(fk, "update-rule") # <<>>
                       THEN <<<<"u", "p", "d", "a", "t", "e", ":", " ">> \o SrcRule(fk, "update-rule")>> ELSE <<>>)
    IN IF present = <<>> THEN <<>>
       ELSE <<" ", "[">> \o Join(<<",", " ">>, present) \o <<"]">>

\* The Ref statements the foreign keys of a document call for: one for each
\* pair whose columns exist, of a key whose referenced table exists, but for
\* the pairs of a column with itself.
ExpectedRefs(doc) ==
    UNION {UNION {{RefStatement(SrcName(SrcRefTable(doc, fk)),
                                SrcName(ColumnById(doc, pair[2])),
                                SrcName(t),
                                SrcName(ColumnById(doc, pair[1]))) \o RuleOptions(fk) :
                      pair \in {pr \in SrcPairs(doc, fk) :
                                   ~(SelfReferential(doc, t, fk) /\ pr[1] = pr[2])}} :
                  fk \in {f \in SrcForeignKeys(doc, t) : SrcRefTable(doc, f).t = "dict"}} :
           t \in SrcTableSet(doc)}

C9_Scenario ==
    RefsDoc("orders", "users", "L2R1", txt.cascade, <<>>)

C10_ScenarioDocs ==
    {UsersDoc(<<1, 2>>, wrap, "ref") : wrap \in BOOLEAN}

C10_InOrder(text) ==
    \E p \in 1..Len(text) :
        \E q \in p..Len(text) :
            \E r \in q..Len(text) :
                /\ Occurs(text, p, <<"T", "a", "b", "l", "e", " ", "\"", "p", "u", "b", "l", "i", "c", ".", "u", "s", "e", "r", "s", "\"", " ", "{">>)
                /\ Occurs(text, q, <<"i", "d", " ", "i", "n", "t", "e", "g", "e", "r", " ", "[", "p", "k", ",", " ", "n", "o", "t", " ", "n", "u", "l", "l", ",", " ", "i", "n", "c", "r", "e", "m", "e", "n", "t", "]">>)
                /\ Occurs(text, r, <<"e", "m", "a", "i", "l", " ", "v", "a", "r", "c", "h", "a", "r", "(", "2", "5", "5", ")", " ", "[", "u", "n", "i", "q", "u", "e", "]">>)

C10_BatchOutput ==
    Converted(1) /\ dir[1].content \in C10_ScenarioDocs => C10_InOrder(OutputText(1))

C10_SingleOutput ==
    SingleDone /\ dir[1].content \in C10_ScenarioDocs => C10_InOrder(SingleText)

\* C10: the output for the scenario holds the three claimed lines in order,
\* in the batch tool and in the single-file tool.
C10_ScenarioOutput ==
    C10_BatchOutput /\ C10_SingleOutput

(***************************************************************************)
(* C11: on every emitted column line the attributes that apply appear in   *)
(* the fixed relative order pk, not null, unique, increment,               *)
(* default: <value>, note: '<escaped remark>', and each attribute appears  *)
(* exactly when the column has the corresponding property (an              *)
(* auto-incremented column carries increment).                             *)
(***************************************************************************)
\* The line of text that begins at p.
LineFrom(text, p) ==
    LET ends == {q \in p..(Len(text) + 1) : AtLineEnd(text, q)}
        q == CHOOSE e \in ends : \A other \in ends : e <= other
    IN SubSeq(text, p, q - 1)

\* The column line of the column `name` in a block.
ColumnLine(block, name) ==
    LineFrom(block, CHOOSE p \in ColumnLineStarts(block, name) : TRUE)

\* The attribute part of a column line: from the first ` [` to the end.
AttrPart(line) ==
    LET starts == {p \in 1..Len(line) : Occurs(line, p, <<" ", "[">>)}
    IN IF starts = {} THEN <<>>
       ELSE SubSeq(line, CHOOSE p \in starts : \A other \in starts : p <= other, Len(line))

\* a remark with each single quote doubled
Doubled(remark) ==
    Replace(remark, "'", <<"'", "'">>)

SrcFlag(c, k) ==
    Get(c, k).t = "bool" /\ Get(c, k).b

\* The attributes the claim has on the line of column c, in its order.
ClaimedAttrs(c) ==
    (IF SrcFlag(c, "part-of-primary-key") THEN <<<<"p", "k">>>> ELSE <<>>)
    \o (IF Get(c, "nullable") = JBool(FALSE) THEN <<<<"n", "o", "t", " ", "n", "u", "l", "l">>>> ELSE <<>>)
    \o (IF SrcFlag(c, "part-of-unique-index") /\ ~SrcFlag(c, "part-of-primary-key")
        THEN <<<<"u", "n", "i", "q", "u", "e">>>> ELSE <<>>)
    \o (IF SrcFlag(c, "auto-incremented") THEN <<<<"i", "n", "c", "r", "e", "m", "e", "n", "t">>>> ELSE <<>>)
    \o (IF Get(c, "default-value").t = "str" /\ Get(c, "default-value").s # <<>>
        THEN <<<<"d", "e", "f", "a", "u", "l", "t", ":", " ">> \o <<Backtick>> \o Get(c, "default-value").s \o <<Backtick>>>>
        ELSE <<>>)
    \o (IF Get(c, "remarks").t = "str" /\ Get(c, "remarks").s # <<>>
        THEN <<<<"n", "o", "t", "e", ":", " ", "'">> \o Doubled(Get(c, "remarks").s) \o <<"'">>>>
        ELSE <<>>)

ClaimedAttrPart(c) ==
    IF ClaimedAttrs(c) = <<>> THEN <<>>
    ELSE <<" ", "[">> \o Join(<<",", " ">>, ClaimedAttrs(c)) \o <<"]">>

\* every column of the one table of a users document has the claimed attributes
C11_Lines(doc, text) ==
    \A c \in SrcAllColumns(doc) :
        /\ ColumnLineStarts(text, SrcName(c)) # {}
        /\ AttrPart(ColumnLine(text, SrcName(c))) = ClaimedAttrPart(c)

C11_BatchAttributes ==
    Converted(1) /\ dir[1].content \in UsersDocs => C11_Lines(dir[1].content, OutputText(1))

C11_SingleAttributes ==
    SingleDone /\ dir[1].content \in UsersDocs => C11_Lines(dir[1].content, SingleText)

\* C11: both tools write on every column line exactly the claimed attributes
\* in the claimed order.
C11_AttributeOrder ==
    C11_BatchAttributes /\ C11_SingleAttributes

(***************************************************************************)
(* C12: the container unwrapper is idempotent: for every node x, also a    *)
(* tagged container whose payload itself has the tagged-container shape,   *)
(* unwrap(unwrap(x)) equals unwrap(x).                                     *)
(***************************************************************************)
C12_UnwrapIdempotent ==
    mode = "unwrap" /\ Len(ret) >= 2 => ret[2] = ret[1]

(***************************************************************************)
(* C13: the container unwrapper returns the payload (second element)       *)
(* exactly when the node is a 2-element sequence whose first element is a  *)
(* string beginning with the generic-collection marker prefix; every other *)
(* node is returned unchanged, except that a missing/null node yields an   *)
(* empty sequence.                                                         *)
(***************************************************************************)
TaggedShape(node) ==
    /\ node.t = "list"
    /\ Len(node.items) = 2
    /\ node.items[1].t = "str"
    /\ Occurs(node.items[1].s, 1, <<"j", "a", "v", "a", ".", "u", "t", "i", "l">>)

\* What the claim has returned for a node; for null, null itself is let
\* pass as well, since the callers of unwrap put `or []` after it.
ClaimedUnwrap(node) ==
    IF TaggedShape(node) THEN {node.items[2]}
    ELSE IF node = JNull THEN {JNull, JList(<<>>)}
    ELSE {node}

C13_Unwrap ==
    mode = "unwrap" /\ Len(ret) >= 1 => ret[1] \in ClaimedUnwrap(arg)

C13_ColumnsBlock ==
    mode = "cols_block" /\ Len(ret) >= 1 => ret[1] \in ClaimedUnwrap(arg)

\* C13: unwrap, and the unwrapping of the column list in to_dbml, return what
\* the claim says for every node.
C13_UnwrapPayload ==
    C13_Unwrap /\ C13_ColumnsBlock

(***************************************************************************)
(* C14: building the identifier index never raises for any input tree: a   *)
(* mapping whose identifier field is missing or malformed (null, empty,    *)
(* not a string) is not indexed, and every mapping with a well-formed      *)
(* identifier anywhere in the tree is indexed.                             *)
(***************************************************************************)
WellFormedId(uid) ==
    uid.t = "str" /\ uid.s # <<>>

\* The identifiers the claim has in the index of a tree.
ClaimedIds(tree) ==
    {Get(o, "@uuid") : o \in {x \in Objects(tree) : WellFormedId(Get(x, "@uuid"))}}

C14_Index(tree, result) ==
    /\ ~result.raised
    /\ DOMAIN result.value = ClaimedIds(tree)
    /\ \A uid \in ClaimedIds(tree) :
          result.value[uid] \in Objects(tree) /\ Get(result.value[uid], "@uuid") = uid

C14_CollectUuidMap ==
    mode = "collect_uuid_map" /\ ret # <<>> => C14_Index(arg, ret[1])

C14_IndexByUuid ==
    mode = "index_by_uuid" /\ ret # <<>> => C14_Index(arg, ret[1])

\* C14: both index builders return, for every tree, the index of exactly the
\* mappings with a well-formed identifier.
C14_IndexNeverRaises ==
    C14_CollectUuidMap /\ C14_IndexByUuid

(***************************************************************************)
(* C15: the type resolver returns the first present (non-empty) field of   *)
(* the resolved type object in the order database-specific type name,      *)
(* local type name, standard type name, fully-qualified name, and the      *)
(* fallback "varchar" only when none is present or the reference does not  *)
(* resolve.                                                                *)
(***************************************************************************)
ClaimedTypeFields ==
    <<"database-specific-type-name", "local-type-name", "standard-type-name", "full-name">>

NonEmptyField(o, f) ==
    Get(o, f).t = "str" /\ Get(o, f).s # <<>>

\* The type object a reference stands for, <<>> when there is none.
ResolvedType(doc, ref) ==
    IF ref.t = "dict" THEN <<ref>>
    ELSE IF HasObject(doc, ref) THEN <<ObjectById(doc, ref)>>
    ELSE <<>>

ClaimedType(doc, ref) ==
    LET type == ResolvedType(doc, ref)
        filled == IF type = <<>> THEN {}
                  ELSE {n \in 1..Len(ClaimedTypeFields) :
                           NonEmptyField(type[1], ClaimedTypeFields[n])}
    IN IF filled = {} THEN JStr(<<"v", "a", "r", "c", "h", "a", "r">>)
       ELSE Get(type[1], ClaimedTypeFields[CHOOSE n \in filled : \A m \in filled : n <= m])

C15_ResolveDatatype ==
    mode = "resolve_datatype" /\ ret # <<>> =>
        ret[1] = Returned(ClaimedType(arg, Get(arg, "column-data-type")))

C15_ResolveDbType ==
    mode = "resolve_db_type" /\ ret # <<>> =>
        ret[1] = Returned(ClaimedType(arg, Get(arg, "type")))

\* C15: both resolvers return the first non-empty of the four name fields in
\* the claimed order, "varchar" otherwise.
C15_TypePriority ==
    C15_ResolveDatatype /\ C15_ResolveDbType

(***************************************************************************)
(* C16: resolution gaps never raise: for any input whose top-level         *)
(* structure is well-formed, an identifier that is not found in the index  *)
(* (table, column, primary-key construct, index, foreign key, referenced   *)
(* table or column-reference endpoint) causes only that element to be      *)
(* skipped or defaulted, and the conversion of the file completes with     *)
(* output.                                                                 *)
(***************************************************************************)
\* The output of the document of the family "gaps" with column line a_line
\* for the column a and the Ref statements refs.
C16_Text(a_line, refs) ==
    Join(<<"\n">>,
         <<<<"T", "a", "b", "l", "e", " ", "i", "t", "e", "m", "s", " ", "{">>, a_line, <<" ", " ", "b", " ", "i", "n", "t", "e", "g", "e", "r", " ", "[", "u", "n", "i", "q", "u", "e", "]">>, <<" ", " ", "i", "n", "d", "e", "x", "e", "s", " ", "{">>,
           <<" ", " ", "(", "b", ")", " ", "[", "u", "n", "i", "q", "u", "e", "]">>, <<" ", " ", "}">>, <<"}", "\n">>>> \o refs)

\* The document without a gap.
C16_Whole ==
    C16_Text(<<" ", " ", "a", " ", "i", "n", "t", "e", "g", "e", "r", " ", "[", "p", "k", ",", " ", "n", "o", "t", " ", "n", "u", "l", "l", "]">>, <<<<"R", "e", "f", ":", " ", "i", "t", "e", "m", "s", ".", "a", " ", ">", " ", "i", "t", "e", "m", "s", ".", "b">>>>)

\* The outputs that skip or default the element with the gap, and nothing else.
C16_Degraded(gap) ==
    CASE gap = "pk" ->
            {C16_Text(<<" ", " ", "a", " ", "i", "n", "t", "e", "g", "e", "r", " ", "[", "n", "o", "t", " ", "n", "u", "l", "l", "]">>, <<<<"R", "e", "f", ":", " ", "i", "t", "e", "m", "s", ".", "a", " ", ">", " ", "i", "t", "e", "m", "s", ".", "b">>>>)}
      [] gap = "ref_table" ->
            {C16_Text(<<" ", " ", "a", " ", "i", "n", "t", "e", "g", "e", "r", " ", "[", "p", "k", ",", " ", "n", "o", "t", " ", "n", "u", "l", "l", "]">>, <<>>),
             C16_Text(<<" ", " ", "a", " ", "i", "n", "t", "e", "g", "e", "r", " ", "[", "p", "k", ",", " ", "n", "o", "t", " ", "n", "u", "l", "l", "]">>, <<<<"R", "e", "f", ":", " ", ".", "a", " ", ">", " ", "i", "t", "e", "m", "s", ".", "b">>>>)}
      [] OTHER -> {C16_Whole}

\* The documents of the other families with an identifier that is not found.
C16_OtherGapDocs ==
    {UsersDoc(order, wrap, "dangling") :
        order \in UNION {Perms(1..n) : n \in 1..MaxCols}, wrap \in BOOLEAN}
    \cup {KeysDoc(pk, idx, wrap) :
             pk \in {"partial", "dangling"}, idx \in {"none", "u_a", "u_ab", "u_b", "n_c"},
             wrap \in BOOLEAN}
    \cup {RefsDoc(owner, target, pair_kind, delete_rule, update_rule) :
             owner \in Owners, target \in {"users", "orders", "dangling"},
             pair_kind \in {"L2R1", "L2Rx", "L2R1_L2Rx"},
             delete_rule \in {<<>>, txt.cascade}, update_rule \in {<<>>, txt.restrict}}
    \cup SlotsDocs

\* C16: a file with an identifier that is not found is converted without an
\* exception, and its output lacks or defaults the one element: nothing else.
C16_GapsNeverRaise ==
    (mode = "batch" /\ dir[1].content \in GapsDocs \cup C16_OtherGapDocs) =>
        /\ \A n \in 1..Len(log) : log[n].kind = "failed" => faults
        /\ BatchEnded => Converted(1)
        /\ Converted(1) =>
              /\ C1_TablesMatch(dir[1].content, OutputText(1))
              /\ \A gap \in GapKinds :
                    dir[1].content = GapsDoc(gap) => OutputText(1) \in C16_Degraded(gap)

\* the file whose index lists a column no object has was converted
C16_Witness ==
    /\ Converted(1)
    /\ dir[1].content = GapsDoc("index_column")
    /\ OutputText(1) = C16_Whole

(***************************************************************************)
(* C17: a structural error at the top level of an input file, such as an   *)
(* absent table list or an absent catalog, makes that file's conversion    *)
(* raise: the batch tool reports a failure for the file, produces no       *)
(* output file for it, and goes on.                                        *)
(***************************************************************************)
\* The documents without a catalog, or with a catalog without a table list.
C17_AbsentDocs ==
    {NoCatalog, NoTableList}

\* C17: a file without a table list or without a catalog is reported as
\* failed, has no output file, and the batch tool runs to its end.
C17_AbsentTableListFails ==
    (mode = "batch" /\ dir[1].content \in C17_AbsentDocs /\ Len(json_files) = 1) =>
        /\ ~Reported("ok", 1)
        /\ OutputOf(1) \notin DOMAIN outfiles
        /\ pc = "done" => Reported("failed", 1)

(***************************************************************************)
(* C18: each output file is written atomically: after processing any input *)
(* file, whether conversion or writing succeeded or failed at any step,    *)
(* the output file either holds the complete rendered document or was not  *)
(* created or changed at all; a partially written or empty output file is  *)
(* never left behind.                                                      *)
(***************************************************************************)
\* The batch tool is past its one input file.
C18_BatchProcessed ==
    mode = "batch" /\ Len(json_files) = 1 /\ i > 1 /\ pc \in {"loop", "done"}

\* The single-file tool has ended, with or without an exception.
C18_SingleProcessed ==
    mode = "single" /\ pc \in {"done", "crashed"}

\* The output folder starts empty: a file in it holds the whole text that
\* the conversion returned.
C18_WholeOrAbsent(name) ==
    name \in DOMAIN outfiles => outfiles[name] = dbml_content

\* C18: once a tool is past an input file, the output file of that input is
\* absent or holds the complete rendered document.
C18_AtomicOutput ==
    /\ C18_BatchProcessed => C18_WholeOrAbsent(OutputOf(1))
    /\ C18_SingleProcessed => C18_WholeOrAbsent(<<"o", "u", "t", ".", "d", "b", "m", "l">>)

(***************************************************************************)
(* C19: an index of a table is emitted as a `[unique]` entry of the        *)
(* indexes block if and only if it is unique and is not identical to the   *)
(* table's primary key (same column combination); non-unique indexes are   *)
(* never emitted.                                                          *)
(***************************************************************************)
\* The indexes a table lists among its constraints.
SrcIndexes(doc, t) ==
    LET ids == Entries(Get(t, "table-constraints"))
    IN {ObjectById(doc, ids[n]) : n \in {m \in 1..Len(ids) : HasObject(doc, ids[m])}}

\* The names of the columns of an index, in its order.
SrcIndexColumns(doc, idx) ==
    LET ids == Entries(Get(idx, "columns"))
    IN [n \in 1..Len(ids) |-> SrcName(ColumnById(doc, ids[n]))]

Range(seq) ==
    {seq[n] : n \in 1..Len(seq)}

\* The index has the column combination of the primary key of t.
SameAsPrimaryKey(doc, t, idx) ==
    /\ SrcPrimaryKey(doc, t) # <<>>
    /\ Range(SrcIndexColumns(doc, idx)) = Range(SrcPrimaryKey(doc, t))

\* The documents with a table that has no, a single-column or a composite
\* primary key and no index or one index with columns of the table.
C19_Docs ==
    {KeysDoc(pk, idx, wrap) :
        pk \in {"none", "single", "composite"}, idx \in {"none", "u_a", "u_ab", "u_b", "n_c"},
        wrap \in BOOLEAN}

C19_Entries(doc, text) ==
    \A t \in SrcTableSet(doc) :
        \A idx \in SrcIndexes(doc, t) :
            HasIndexEntry(BlockOf(text, SrcName(t)), ColumnList(SrcIndexColumns(doc, idx)),
                          <<"u", "n", "i", "q", "u", "e", "]">>)
            <=> (Get(idx, "unique") = JBool(TRUE) /\ ~SameAsPrimaryKey(doc, t, idx))

\* C19: the indexes block has a [unique] entry for an index exactly when the
\* index is unique and has not the column combination of the primary key.
C19_UniqueEntries ==
    \A k \in 1..Len(json_files) :
        Converted(k) /\ json_files[k].content \in C19_Docs =>
            C19_Entries(json_files[k].content, OutputText(k))

(***************************************************************************)
(* C20: escaping: in every emitted remark (column `note:` and table        *)
(* `Note:`) each single quote of the source remark is doubled and nothing  *)
(* else is changed; every non-empty default-value expression is emitted as *)
(* the source expression wrapped in backticks verbatim, for every column   *)
(* of every table.                                                         *)
(***************************************************************************)
\* The line of column a with its default and its remark, and the Note line
\* of the table, as the claim has them.
C20_ColumnLine(remark, default) ==
    <<" ", " ", "a", " ", "i", "n", "t", "e", "g", "e", "r", " ", "[", "d", "e", "f", "a", "u", "l", "t", ":", " ">> \o <<Backtick>> \o default \o <<Backtick>>
    \o <<",", " ", "n", "o", "t", "e", ":", " ", "'">> \o Doubled(remark) \o <<"'", "]">>

C20_NoteLine(remark) ==
    <<" ", " ", "N", "o", "t", "e", ":", " ", "'">> \o Doubled(remark) \o <<"'">>

\* C20: the batch tool writes every remark with its quotes doubled and
\* otherwise unchanged, and every default expression verbatim in backticks.
C20_Escaping ==
    \A remark \in EscapeRemarks :
        \A default \in EscapeDefaults :
            Converted(1) /\ dir[1].content = EscapesDoc(remark, default) =>
                /\ HasLine(OutputText(1), C20_ColumnLine(remark, default))
                /\ HasLine(OutputText(1), C20_NoteLine(remark))

(***************************************************************************)
(* C21: a column flagged part-of-unique-index carries the `unique`         *)
(* attribute unless it is the column of a single-column primary key; a     *)
(* unique-flagged column that is a member of a composite primary key still *)
(* carries `unique`.                                                       *)
(***************************************************************************)
\* The attribute list of a column line has the attribute attr.
HasAttr(line, attr) ==
    LET part == AttrPart(line)
    IN \E p \in 2..Len(part) :
          /\ Occurs(part, p, attr)
          /\ part[p - 1] \in {"[", " "}
          /\ p + Len(attr) <= Len(part)
          /\ part[p + Len(attr)] \in {"]", ","}

\* The documents with no, a single-column or a composite primary key and a
\* unique index.
C21_Docs ==
    {KeysDoc(pk, idx, wrap) :
        pk \in {"none", "single", "composite"}, idx \in {"u_a", "u_ab", "u_b"},
        wrap \in BOOLEAN}

C21_Columns(doc, text) ==
    \A t \in SrcTableSet(doc) :
        \A c \in SrcColumns(doc, t) :
            SrcFlag(c, "part-of-unique-index") =>
                (HasAttr(ColumnLine(BlockOf(text, SrcName(t)), SrcName(c)), <<"u", "n", "i", "q", "u", "e">>)
                 <=> SrcPrimaryKey(doc, t) # <<SrcName(c)>>)

\* C21: a unique-flagged column has the attribute unique exactly when it is
\* not the one column of a single-column primary key.
C21_UniqueAttribute ==
    \A k \in 1..Len(json_files) :
        Converted(k) /\ json_files[k].content \in C21_Docs =>
            C21_Columns(json_files[k].content, OutputText(k))

(***************************************************************************)
(* C22: self-identity suppression applies to a foreign key as a whole and  *)
(* only when every one of its column-reference pairs is identical: a       *)
(* foreign key that references its own table but has at least one pair     *)
(* whose local and referenced columns differ has a Ref statement emitted   *)
(* for each of its resolvable pairs.                                       *)
(***************************************************************************)
\* The foreign key references its own table and some resolvable pair of it
\* pairs two different columns.
C22_Informative(doc, t, fk) ==
    /\ SelfReferential(doc, t, fk)
    /\ \E pair \in SrcPairs(doc, fk) : pair[1] # pair[2]

C22_AllPairs(doc, text) ==
    \A t \in SrcTableSet(doc) :
        \A fk \in SrcForeignKeys(doc, t) :
            C22_Informative(doc, t, fk) =>
                \A pair \in SrcPairs(doc, fk) :
                    HasLine(text, RefStatement(SrcName(t), SrcName(ColumnById(doc, pair[2])),
                                               SrcName(t), SrcName(ColumnById(doc, pair[1])))
                                  \o RuleOptions(fk))

\* C22: a foreign key into its own table with a pair of two different
\* columns has a Ref statement for every resolvable pair.
C22_WholeKeySuppression ==
    Converted(1) /\ dir[1].content \in RefsDocs /\ dir[1].content \in WellFormedDocs =>
        C22_AllPairs(dir[1].content, OutputText(1))

(***************************************************************************)
(* C23: within one file's conversion, the identifier-indexing pass over    *)
(* the whole input tree completes before the first identifier lookup is    *)
(* performed, and the index is never written after the first lookup, so a  *)
(* reference to an object that appears later in the tree than its referrer *)
(* resolves.                                                               *)
(***************************************************************************)
\* At every lookup the walk has no call left.
C23_IndexComplete ==
    lookups # <<>> => pending = <<>> /\ pc # "index"

\* Every lookup of the identifier of an object of the document found it.
C23_ReferencesResolve ==
    \A n \in 1..Len(lookups) : HasObject(arg, lookups[n].key) => lookups[n].found

\* C23: no lookup before the index is complete, no write to the index after
\* a lookup, and every reference to an object of the document resolves.
C23_IndexingFirst ==
    /\ [](C23_IndexComplete /\ C23_ReferencesResolve)
    /\ [][lookups # <<>> => built' = built]_vars

\* the batch tool has looked up the data type d2 of the column email, which
\* stands in the tree after the column, and found it
C23_Witness ==
    /\ mode = "convert_to_dbml"
    /\ pc = "done"
    /\ arg = UsersDoc(<<1, 2>>, TRUE, "ref")
    /\ \E n \in 1..Len(lookups) : lookups[n] = [key |-> Uuid("d", 2), found |-> TRUE]

(***************************************************************************)
(* C24: for every table and every input (including primary-key constructs  *)
(* whose column identifiers only partly resolve), the primary key is       *)
(* rendered in exactly one way: the emitted table block never contains     *)
(* both a column line carrying the `pk` attribute and a `[pk]` entry in    *)
(* its indexes block.                                                      *)
(***************************************************************************)
\* Some column line of the block of t carries the attribute pk.
C24_PkAttribute(doc, t, block) ==
    \E c \in SrcColumns(doc, t) : HasAttr(ColumnLine(block, SrcName(c)), <<"p", "k">>)

\* The block has an indexes entry marked [pk].
C24_PkEntry(block) ==
    \E p \in 1..Len(block) : Occurs(block, p, <<")", " ", "[", "p", "k", "]">>) /\ AtLineEnd(block, p + 6)

C24_OneWay(doc, text) ==
    \A t \in SrcTableSet(doc) :
        ~(/\ C24_PkAttribute(doc, t, BlockOf(text, SrcName(t)))
          /\ C24_PkEntry(BlockOf(text, SrcName(t))))

\* C24: no table block has both a column line with the attribute pk and a
\* [pk] entry of the indexes block.
C24_PkRenderedOnce ==
    \A k \in 1..Len(json_files) :
        Converted(k) /\ json_files[k].content \in KeysDocs \cup UsersDocs \cup RefsDocs =>
            C24_OneWay(json_files[k].content, OutputText(k))

(***************************************************************************)
(* C25: no emitted construct has an empty name slot: for every input,      *)
(* every entry of an indexes block lists at least one column name, and     *)
(* every Ref statement has a non-empty table name and a non-empty column   *)
(* name on both sides, even when index columns or the referenced table     *)
(* fail to resolve.                                                        *)
(***************************************************************************)
\* No entry of an indexes block is `()`.
C25_IndexEntriesNamed(text) ==
    ~HasLineStart(text, <<" ", " ", "(", ")", " ", "[">>)

\* A Ref statement `Ref: T.c > U.d` with its four names non-empty: no name
\* slot is followed at once by its delimiter, and the line does not end at
\* the last dot.
C25_RefNamed(line) ==
    /\ ~Occurs(line, 1, <<"R", "e", "f", ":", " ", ".">>)
    /\ \A p \in 1..Len(line) :
          /\ ~Occurs(line, p, <<".", " ", ">", " ">>)
          /\ ~Occurs(line, p, <<" ", ">", " ", ".">>)
          /\ ~Occurs(line, p, <<".", " ", "[">>)
    /\ line[Len(line)] # "."

C25_RefsNamed(text) ==
    \A p \in LineStarts(text, <<"R", "e", "f", ":", " ">>) : C25_RefNamed(LineFrom(text, p))

\* C25: the output of every converted file has no indexes entry without a
\* column name and no Ref statement with an empty table or column name.
C25_NoEmptySlots ==
    \A k \in 1..Len(json_files) :
        Converted(k) =>
            /\ C25_IndexEntriesNamed(OutputText(k))
            /\ C25_RefsNamed(OutputText(k))

====
